---- MODULE Spec2Model ----
(***************************************************************************)
(* Local-LLM provider adapter (LocalLLMAdapter / OllamaProvider): the      *)
(* shared request execution with timeout and retries, the model-presence   *)
(* guarantee, and the line-delimited stream parser.                        *)
(***************************************************************************)
EXTENDS Integers, Sequences, FiniteSets, TLC

VARIABLES
    config,     \* LocalLLMAdapter.config, the one shared mutable object
    call,       \* the asynchronous adapter calls: call id -> call record
    updates,    \* number of updateConfig calls made so far
    body,       \* stream: the bytes the transport will deliver
    rpos,       \* stream: number of bytes already delivered by reader.read()
    closed,     \* stream: how the transport ended ("open", "eof")
    buffer,     \* stream: processStreamResponse's `buffer`
    lines,      \* stream: the rest of `lines` the for-loop still has to visit
    cur,        \* stream: the chunk whose yield the generator is suspended at
    gen,        \* stream: generator state
    held,       \* stream: TRUE while the reader lock is held
    out,        \* stream: the items yielded so far
    parsed,     \* stream: the line texts handed to JSON.parse so far
    consumer,   \* stream: what the consumer did last
    joined,     \* stream: a read has completed a line begun in an earlier read
    facade,     \* facade: the outcome of `new LocalContentGenerator(config)`
    heap,       \* facade: the configuration objects allocated so far, by identity
    self,       \* facade: the object this.config refers to (0: no adapter)
    handles,    \* facade: the objects getConfig has returned to callers
    shadow,     \* facade: history of the updates made and of the copies handed out
    ctx,        \* selection: the ModelSelectionContext of the call
    rec         \* selection: what the call returned or threw

adapterVars == <<config, call, updates>>
streamVars == <<body, rpos, closed, buffer, lines, cur, gen, held, out, parsed, consumer,
                joined>>
facadeVars == <<facade, heap, self, handles, shadow>>
selectVars == <<ctx, rec>>
vars == <<config, call, updates, body, rpos, closed, buffer, lines, cur, gen, held,
          out, parsed, consumer, joined, facade, heap, self, handles, shadow, ctx, rec>>

----------------------------------------------------------------------------
(* Bounds of the model *)

MaxCfgRetries == 3      \* configured maxRetries ranges over 0..MaxCfgRetries
MaxUpdates == 1         \* updateConfig calls per behaviour
MaxFrames == 2          \* progress frames a pull response streams
MaxLines == 3           \* newline-terminated lines in a streamed body
MaxObjects == 4         \* configuration objects allocated per facade

----------------------------------------------------------------------------
(* Model names are strings: sequences of characters *)

Llama == <<"l">>                \* "llama3.1"
LlamaLatest == <<"l", ":">>     \* "llama3.1:latest"
Phi == <<"p">>                  \* "phi3"
Mistral == <<"m">>              \* "mistral", installed but never configured

ModelIds == {Llama, LlamaLatest, Phi}

\* the installed-model listings the backend may answer with
InstalledLists == { <<>>, <<LlamaLatest>>, <<Phi>>, <<Mistral, LlamaLatest>> }

\* String.prototype.startsWith
StartsWith(name, prefix) ==
    /\ Len(prefix) <= Len(name)
    /\ SubSeq(name, 1, Len(prefix)) = prefix

DefaultRetries == 3     \* the `|| 3` of makeRequest's default parameter
DefaultTimeout == 30000 \* the `|| 30000` of makeRequest
OllamaTimeout == 60000  \* OllamaProvider's default timeout
FastTimeout == 15000    \* the timeout of LOCAL_LLM_CONFIGS.FAST

\* JavaScript `x || d` on a number: 0 is falsy
OrDefault(x, d) == IF x = 0 THEN d ELSE x

Operations == {"isAvailable", "listModels", "pullModel", "generateContent",
               "generateContentStream"}
Generating == {"generateContent", "generateContentStream"}

\* how one fetch attempt can settle: a success response, a non-success
\* response, a rejected fetch (transport failure), an abort by the timeout timer
Outcomes == {"ok", "http", "net", "abort"}

BadBody == <<<<"?">>>>      \* a reply whose JSON is not of the expected shape

\* what may come with a settled attempt: the listing, the kind of body
Replies(phase, outcome) ==
    IF outcome # "ok" THEN {<<>>}
    ELSE IF phase = "tags" THEN InstalledLists \cup {BadBody}
    ELSE IF phase = "pull" THEN {<<>>, BadBody}     \* a body to read, or none
    ELSE {<<>>, BadBody}

NoModel == <<>>

Result(kind, msg, model, names) ==
    [kind |-> kind, msg |-> msg, model |-> model, names |-> names]

Pending == Result("pending", "", NoModel, <<>>)

IdleCall ==
    [op |-> "none", pc |-> "idle", phase |-> "none", retries |-> 0, tmo |-> 0,
     installed |-> <<>>, pullName |-> NoModel, chatModel |-> NoModel,
     frames |-> 0, badFrames |-> 0, pullEnd |-> "none", result |-> Pending,
     \* history of the call, read by the properties only
     attempts |-> 0, delays |-> 0, budgetCfg |-> 0, snapTmo |-> 0, seen |-> {},
     last |-> "none",
     listOk |-> FALSE, checked |-> FALSE, checkedModel |-> NoModel,
     pullAsked |-> FALSE, pullOk |-> FALSE, chatSent |-> 0, cfgChanged |-> FALSE]

\* mutant: the presence check compares for equality instead of a prefix
ModelInstalledExact(names, id) ==
    \E i \in 1..Len(names) : names[i] = id

\* availableModelNames.some(name => name.startsWith(this.config.model))
ModelInstalled(names, id) ==
    \E i \in 1..Len(names) : StartsWith(names[i], id)

\* one attempt of makeRequest: arm the timeout timer, issue the fetch
MakeRequest(r, phase, retries) ==
    [r EXCEPT !.pc = "fetch", !.phase = phase, !.retries = retries,
              !.tmo = OrDefault(config.timeout, DefaultTimeout),
              !.attempts = @ + 1,
              !.chatSent = IF phase = "chat" THEN @ + 1 ELSE @]

\* the default parameter `retries = this.config.maxRetries || 3`
RetryBudget(maxRetries) == OrDefault(maxRetries, DefaultRetries)

\* a caller's this.makeRequest(url, options): the retry budget is read here
EnterRequest(r, phase) ==
    MakeRequest([r EXCEPT !.attempts = 0, !.delays = 0, !.seen = {},
                          !.last = "none", !.budgetCfg = config.maxRetries,
                          !.snapTmo = OrDefault(config.timeout, DefaultTimeout)],
                phase, RetryBudget(config.maxRetries))

Finish(r, res) == [r EXCEPT !.pc = "done", !.result = res]

\* generateContent / generateContentStream after ensureModelAvailable:
\* build the chat request from the configuration and send it
BuildChat(r) == EnterRequest([r EXCEPT !.chatModel = config.model], "chat")

\* mutant: the failed pull is reported with an empty installed list
PullFailNoList(r) ==
    IF r.op = "pullModel"
    THEN Finish(r, Result("Error", "Failed to pull model", r.pullName, <<>>))
    ELSE Finish(r, Result("ModelNotAvailableError", "", config.model, <<>>))

\* pullModel's catch, and ensureModelAvailable's catch around it
PullFail(r) ==
    IF r.op = "pullModel"
    THEN Finish(r, Result("Error", "Failed to pull model", r.pullName, <<>>))
    ELSE Finish(r, Result("ModelNotAvailableError", "", config.model, r.installed))

\* pullModel resolves
PullDone(r) ==
    IF r.op = "pullModel"
    THEN Finish(r, Result("void", "", NoModel, <<>>))
    ELSE BuildChat([r EXCEPT !.pullOk = TRUE])

\* ensureModelAvailable after `await this.listModels()`
AfterListing(r) ==
    LET r1 == [r EXCEPT !.checked = TRUE, !.checkedModel = config.model] IN
    IF ModelInstalled(r.installed, config.model)
    THEN BuildChat(r1)
    ELSE EnterRequest([r1 EXCEPT !.pullAsked = TRUE, !.pullName = config.model],
                      "pull")

\* mutant: isAvailable without its catch, the rejection escapes
IsAvailableNoCatch(fin) ==
    IF fin = "ok" THEN Result("true", "", NoModel, <<>>)
    ELSE IF fin = "http" THEN Result("false", "", NoModel, <<>>)
    ELSE Result("FetchError", "", NoModel, <<>>)

\* isAvailable: response.ok, or false from the catch
IsAvailableResult(fin) ==
    IF fin = "ok" THEN Result("true", "", NoModel, <<>>)
    ELSE Result("false", "", NoModel, <<>>)

\* listModels: what the request's final outcome and the reply turn into
ListModelsResult(fin, reply) ==
    IF fin = "http" THEN Result("LocalLLMNotAvailableError", "", NoModel, <<>>)
    ELSE IF fin = "ok" /\ reply # BadBody THEN Result("models", "", NoModel, reply)
    ELSE Result("Error", "Failed to list models", NoModel, <<>>)

\* generateContent's try/catch around the chat request
GenerateResult(fin, reply) ==
    IF fin = "ok" /\ reply # BadBody THEN Result("response", "", NoModel, <<>>)
    ELSE Result("Error", "Failed to generate content", NoModel, <<>>)

\* generateContentStream: no catch around the chat request
GenerateStreamResult(fin) ==
    IF fin = "ok" THEN Result("stream", "", NoModel, <<>>)
    ELSE IF fin = "http"
         THEN Result("Error", "Ollama streaming request failed", NoModel, <<>>)
         ELSE Result("FetchError", "", NoModel, <<>>)

\* the continuation of the code that awaited makeRequest, once the request
\* has returned a response (fin "ok"/"http") or thrown (fin "net"/"abort")
Complete(r, fin, reply) ==
    IF r.phase = "tags" THEN
        IF r.op = "isAvailable" THEN Finish(r, IsAvailableResult(fin))
        ELSE LET res == ListModelsResult(fin, reply) IN
             IF res.kind # "models" \/ r.op = "listModels" THEN Finish(r, res)
             ELSE AfterListing([r EXCEPT !.installed = res.names, !.listOk = TRUE])
    ELSE IF r.phase = "pull" THEN
        IF fin # "ok" THEN PullFail(r)
        ELSE IF reply = BadBody                         \* response.body is null
             THEN PullDone([r EXCEPT !.pullEnd = "nobody"])
        ELSE [r EXCEPT !.pc = "pullRead"]
    ELSE IF r.op = "generateContent" THEN Finish(r, GenerateResult(fin, reply))
    ELSE Finish(r, GenerateStreamResult(fin))

\* mutant: only a rejected fetch is retried, a non-success response is returned
ShouldRetryOnThrowOnly(outcome, retries) ==
    outcome \in {"net", "abort"} /\ retries > 0

\* makeRequest after `await fetch`: retry while budget remains
ShouldRetry(outcome, retries) == outcome # "ok" /\ retries > 0

----------------------------------------------------------------------------
(* Adapter actions *)

StartCall(c, op, name) ==
    /\ call[c].pc = "idle"
    /\ LET r == [call[c] EXCEPT !.op = op] IN
       call' = [call EXCEPT ![c] =
           IF op = "pullModel"
           THEN EnterRequest([r EXCEPT !.pullName = name, !.pullAsked = TRUE], "pull")
           ELSE EnterRequest(r, "tags")]
    /\ UNCHANGED <<config, updates, streamVars, facadeVars, selectVars>>

Settle(c, outcome, reply) ==
    /\ call[c].pc = "fetch"
    /\ reply \in Replies(call[c].phase, outcome)
    /\ LET r == [call[c] EXCEPT !.last = outcome,
                                !.seen = @ \cup {IF outcome \in {"net", "abort"}
                                                 THEN "reject" ELSE outcome}] IN
       call' = [call EXCEPT ![c] =
           IF ShouldRetry(outcome, r.retries)
           THEN [r EXCEPT !.pc = "delay"]
           ELSE Complete(r, outcome, reply)]
    /\ UNCHANGED <<config, updates, streamVars, facadeVars, selectVars>>

\* mutant: the retries left are one counter of the adapter: a retry of one
\* call also takes one from every other call in flight
RetryShared(c) ==
    /\ call[c].pc = "delay"
    /\ call' = [d \in DOMAIN call |->
           IF d = c
           THEN MakeRequest([call[c] EXCEPT !.delays = @ + 1], call[c].phase,
                            call[c].retries - 1)
           ELSE IF call[d].pc \in {"fetch", "delay"} /\ call[d].retries > 0
                THEN [call[d] EXCEPT !.retries = @ - 1]
                ELSE call[d]]
    /\ UNCHANGED <<config, updates, streamVars, facadeVars, selectVars>>

\* the fixed 1000 ms delay has elapsed: makeRequest(url, options, retries - 1)
Retry(c) ==
    /\ call[c].pc = "delay"
    /\ call' = [call EXCEPT ![c] =
           MakeRequest([call[c] EXCEPT !.delays = @ + 1], call[c].phase,
                       call[c].retries - 1)]
    /\ UNCHANGED <<config, updates, streamVars, facadeVars, selectVars>>

\* mutant: a progress frame that does not parse fails the pull
ReadFrameAbortOnBad(r, wellFormed) ==
    LET r1 == [r EXCEPT !.frames = @ + 1,
                        !.badFrames = IF wellFormed THEN @ ELSE @ + 1] IN
    IF wellFormed THEN r1 ELSE PullFail(r1)

\* pullModel's loop body: decode the frame, try { JSON.parse } catch { },
\* and on to the next reader.read()
ReadFrame(r, wellFormed) ==
    [r EXCEPT !.frames = @ + 1,
              !.badFrames = IF wellFormed THEN @ ELSE @ + 1]

\* pullModel's read loop: a progress frame arrives (JSON or not)
PullFrame(c, wellFormed) ==
    /\ call[c].pc = "pullRead"
    /\ call[c].frames < MaxFrames
    /\ call' = [call EXCEPT ![c] = ReadFrame(call[c], wellFormed)]
    /\ UNCHANGED <<config, updates, streamVars, facadeVars, selectVars>>

\* reader.read() reports done
PullEnd(c) ==
    /\ call[c].pc = "pullRead"
    /\ call' = [call EXCEPT ![c] = PullDone([call[c] EXCEPT !.pullEnd = "eof"])]
    /\ UNCHANGED <<config, updates, streamVars, facadeVars, selectVars>>

\* reader.read() rejects
PullReadError(c) ==
    /\ call[c].pc = "pullRead"
    /\ call' = [call EXCEPT ![c] = PullFail([call[c] EXCEPT !.pullEnd = "error"])]
    /\ UNCHANGED <<config, updates, streamVars, facadeVars, selectVars>>

ConfigFields == {"model", "maxRetries", "timeout"}

\* the Partial<LocalLLMConfig> values a caller passes to updateConfig
ConfigUpdates ==
    { [fields |-> {"model"},
       val |-> [model |-> Phi, maxRetries |-> 0, timeout |-> 0]],
      [fields |-> {"maxRetries"},
       val |-> [model |-> NoModel, maxRetries |-> 1, timeout |-> 0]],
      [fields |-> {"timeout"},
       val |-> [model |-> NoModel, maxRetries |-> 0, timeout |-> FastTimeout]],
      [fields |-> {"model", "maxRetries"},
       val |-> [model |-> LlamaLatest, maxRetries |-> 0, timeout |-> 0]] }

\* this.config = { ...this.config, ...updates }
MergeConfig(cfg, u) ==
    [f \in ConfigFields |-> IF f \in u.fields THEN u.val[f] ELSE cfg[f]]

UpdateConfig(u) ==
    /\ updates < MaxUpdates
    /\ updates' = updates + 1
    /\ config' = MergeConfig(config, u)
    /\ call' = [c \in DOMAIN call |->
                 IF call[c].pc \in {"idle", "done"} THEN call[c]
                 ELSE [call[c] EXCEPT !.cfgChanged = TRUE]]
    /\ UNCHANGED <<streamVars, facadeVars, selectVars>>

----------------------------------------------------------------------------
(* The facade (LocalContentGenerator) and the configuration objects *)

ProviderKinds == {"ollama", "llamafile", "lmstudio", "custom", "other"}

NoFacade == [state |-> "none", kind |-> "none", adapter |-> FALSE, error |-> ""]

Threw(kind, msg) == [state |-> "threw", kind |-> kind, adapter |-> FALSE, error |-> msg]

\* mutant: the kinds without an implementation construct a facade that has
\* no adapter
NewLocalContentGeneratorLenient(kind) ==
    IF kind = "ollama"
    THEN [state |-> "constructed", kind |-> kind, adapter |-> TRUE, error |-> ""]
    ELSE [state |-> "constructed", kind |-> kind, adapter |-> FALSE, error |-> ""]

\* the constructor's switch on config.provider
NewLocalContentGenerator(kind) ==
    IF kind = "ollama"
    THEN [state |-> "constructed", kind |-> kind, adapter |-> TRUE, error |-> ""]
    ELSE IF kind = "llamafile" THEN Threw(kind, "Llamafile provider not yet implemented")
    ELSE IF kind = "lmstudio" THEN Threw(kind, "LM Studio provider not yet implemented")
    ELSE IF kind = "custom" THEN Threw(kind, "Custom provider not yet implemented")
    ELSE Threw(kind, "Unsupported local LLM provider")

NoConfig == [model |-> NoModel, maxRetries |-> 0, timeout |-> 0]

NoShadow == [init |-> NoConfig, log |-> <<>>, copies |-> <<>>]

\* mutant: getConfig hands out the adapter's own object
ShareConfig(h, ref) == [heap |-> h, ref |-> ref]

\* { ...this.config }: a new object with the fields of the one `ref` names
CopyConfig(h, ref) == [heap |-> Append(h, h[ref]), ref |-> Len(h) + 1]

\* the values a caller writes into a configuration it was handed
Scribble == [model |-> Mistral, maxRetries |-> DefaultRetries, timeout |-> DefaultTimeout]

NoContext == [prompt |-> "none"]

NoRecommendation == [outcome |-> "none", path |-> "none"]

SelectIdle == ctx = NoContext /\ rec = NoRecommendation

FacadeIdle ==
    /\ facade = NoFacade /\ heap = <<>> /\ self = 0 /\ handles = <<>>
    /\ shadow = NoShadow

\* new LocalContentGenerator(config); for 'ollama' the adapter's configuration
\* is a fresh object, the defaults overridden by the caller's fields
Construct(kind, m, n) ==
    /\ facade.state = "none"
    /\ facade' = NewLocalContentGenerator(kind)
    /\ IF facade'.adapter
       THEN LET cfg == [model |-> m, maxRetries |-> n, timeout |-> OllamaTimeout] IN
            /\ config' = cfg
            /\ heap' = << cfg >>
            /\ self' = 1
            /\ shadow' = [shadow EXCEPT !.init = cfg]
       ELSE UNCHANGED <<config, heap, self, shadow>>
    /\ UNCHANGED <<call, updates, streamVars, handles, selectVars>>

\* LocalContentGenerator.getConfig -> this.adapter.getConfig()
FacadeGetConfig ==
    /\ facade.state = "constructed"
    /\ Len(heap) < MaxObjects
    /\ LET g == CopyConfig(heap, self) IN
       /\ heap' = g.heap
       /\ handles' = Append(handles, g.ref)
    /\ shadow' = [shadow EXCEPT !.copies = Append(@, heap[self])]
    /\ UNCHANGED <<adapterVars, streamVars, facade, self, selectVars>>

\* LocalContentGenerator.updateConfig -> this.adapter.updateConfig(updates):
\* this.config is replaced by a new merged object
FacadeUpdateConfig(u) ==
    /\ facade.state = "constructed"
    /\ Len(heap) < MaxObjects
    /\ heap' = Append(heap, MergeConfig(heap[self], u))
    /\ self' = Len(heap) + 1
    /\ config' = heap'[self']
    /\ shadow' = [shadow EXCEPT !.log = Append(@, u)]
    /\ UNCHANGED <<call, updates, streamVars, facade, handles, selectVars>>

\* the caller assigns a field of the i-th configuration it was handed
WriteCopy(i, f) ==
    /\ i \in 1..Len(handles)
    /\ heap[handles[i]][f] # Scribble[f]
    /\ heap' = [heap EXCEPT ![handles[i]][f] = Scribble[f]]
    /\ config' = heap'[self]
    /\ shadow' = [shadow EXCEPT !.copies[i][f] = Scribble[f]]
    /\ UNCHANGED <<call, updates, streamVars, facade, self, handles, selectVars>>

StreamIdle ==
    /\ body = <<>> /\ rpos = 0 /\ closed = "open" /\ buffer = <<>> /\ lines = <<>>
    /\ cur = [ok |-> FALSE, null |-> FALSE, content |-> "", done |-> FALSE] /\ gen = "unstarted" /\ held = FALSE /\ out = <<>> /\ parsed = <<>>
    /\ consumer = "none" /\ joined = FALSE

\* createContentGenerator: maxRetries: config.localLLM.maxRetries || 3
FactoryMaxRetries(n) == OrDefault(n, DefaultRetries)

\* new OllamaProvider(config): the defaults overridden by the caller's config,
\* given directly or built by createContentGenerator
Init ==
    /\ \E m \in ModelIds, n \in 0..MaxCfgRetries, viaFactory \in BOOLEAN :
         config = [model |-> m,
                   maxRetries |-> IF viaFactory THEN FactoryMaxRetries(n) ELSE n,
                   timeout |-> OllamaTimeout]
    /\ call = [c \in {"c1"} |-> IdleCall]
    /\ updates = 0
    /\ StreamIdle
    /\ FacadeIdle
    /\ SelectIdle

Next ==
    \/ \E c \in DOMAIN call, op \in Operations, name \in ModelIds : StartCall(c, op, name)
    \/ \E c \in DOMAIN call, o \in Outcomes, reply \in InstalledLists \cup {BadBody} :
          Settle(c, o, reply)
    \/ \E c \in DOMAIN call : Retry(c)
    \/ \E c \in DOMAIN call, w \in BOOLEAN : PullFrame(c, w)
    \/ \E c \in DOMAIN call : PullEnd(c)
    \/ \E c \in DOMAIN call : PullReadError(c)
    \/ \E u \in ConfigUpdates : UpdateConfig(u)

Spec == Init /\ [][Next]_vars

\* two callers share one adapter
InitConcurrent ==
    /\ \E n \in 0..MaxCfgRetries :
         config = [model |-> Llama, maxRetries |-> n, timeout |-> OllamaTimeout]
    /\ call = [c \in {"c1", "c2"} |-> IdleCall]
    /\ updates = 0
    /\ StreamIdle
    /\ FacadeIdle
    /\ SelectIdle

NextConcurrent ==
    \/ \E c \in DOMAIN call : StartCall(c, "isAvailable", Llama)
    \/ \E c \in DOMAIN call, o \in Outcomes : Settle(c, o, <<>>)
    \/ \E c \in DOMAIN call : Retry(c)
    \/ \E u \in ConfigUpdates : UpdateConfig(u)

SpecConcurrent == InitConcurrent /\ [][NextConcurrent]_vars

\* no facade constructed yet
InitFacade ==
    /\ config = NoConfig
    /\ call = [c \in {"c1"} |-> IdleCall]
    /\ updates = 0
    /\ StreamIdle
    /\ FacadeIdle
    /\ SelectIdle

NextFacade ==
    \/ \E kind \in ProviderKinds, m \in ModelIds, n \in 0..MaxCfgRetries :
          Construct(kind, m, n)
    \/ FacadeGetConfig
    \/ \E u \in ConfigUpdates : FacadeUpdateConfig(u)
    \/ \E i \in 1..MaxObjects, f \in ConfigFields : WriteCopy(i, f)

SpecFacade == InitFacade /\ [][NextFacade]_vars

----------------------------------------------------------------------------
(* The streamed chat body: bytes, lines, JSON *)

NL == "\n"

\* the texts a line of the body may hold (without its newline)
LineTexts ==
    { <<" ">>,                      \* blank
      <<"{", "a", "}">>,            \* {"message":{"content":"a"},"done":false}
      <<"{", "b", "d", "}">>,       \* {"message":{"content":"b"},"done":true}
      <<"x">>,                      \* not JSON
      <<"0">> }                     \* the JSON literal null

\* what may follow the last newline of the body
TailTexts == { <<>>, <<"{", "b", "d", "}">> }

RECURSIVE Bodies(_)
Bodies(n) ==
    IF n = 0 THEN { <<>> }
    ELSE LET shorter == Bodies(n - 1) IN
         shorter \cup { b \o t \o <<NL>> : b \in shorter, t \in LineTexts }

\* String.prototype.split('\n'): always at least one element
RECURSIVE Split(_)
Split(s) ==
    IF \A i \in 1..Len(s) : s[i] # NL THEN << s >>
    ELSE LET k == CHOOSE i \in 1..Len(s) :
                     s[i] = NL /\ \A j \in 1..(i - 1) : s[j] # NL
         IN << SubSeq(s, 1, k - 1) >> \o Split(SubSeq(s, k + 1, Len(s)))

\* String.prototype.trim
RECURSIVE Trim(_)
Trim(s) ==
    IF s = <<>> THEN s
    ELSE IF Head(s) = " " THEN Trim(Tail(s))
    ELSE IF s[Len(s)] = " " THEN Trim(SubSeq(s, 1, Len(s) - 1))
    ELSE s

Malformed == [ok |-> FALSE, null |-> FALSE, content |-> "", done |-> FALSE]
JsonNull == [ok |-> TRUE, null |-> TRUE, content |-> "", done |-> FALSE]
Chunk(content, done) == [ok |-> TRUE, null |-> FALSE, content |-> content, done |-> done]

\* JSON.parse of one line: an object "{" [content] ["d"] "}", the literal
\* null, or a SyntaxError (ok = FALSE); surrounding white space is allowed
JsonParse(text) ==
    LET t == Trim(text)
        n == Len(t)
        inner == IF n >= 2 THEN SubSeq(t, 2, n - 1) ELSE <<>>
    IN IF t = <<"0">> THEN JsonNull
       ELSE IF n < 2 \/ t[1] # "{" \/ t[n] # "}" THEN Malformed
       ELSE IF inner = <<>> THEN Chunk("", FALSE)
       ELSE IF inner = <<"d">> THEN Chunk("", TRUE)
       ELSE IF Len(inner) = 1 /\ inner[1] \in {"a", "b"} THEN Chunk(inner[1], FALSE)
       ELSE IF Len(inner) = 2 /\ inner[1] \in {"a", "b"} /\ inner[2] = "d"
            THEN Chunk(inner[1], TRUE)
       ELSE Malformed

\* convertFromLocalFormat: one candidate, text from message.content,
\* finishReason STOP when done
ConvertFromLocalFormat(v) ==
    [text |-> v.content, finish |-> IF v.done THEN "STOP" ELSE "none"]

\* does `yield this.convertFromLocalFormat(JSON.parse(line))` reach the yield?
\* JSON.parse may throw, and converting null throws a TypeError
Yields(v) == v.ok /\ ~v.null

NoChunk == Malformed

\* mutant: a line that does not parse ends the for-loop, the lines after it
\* are dropped
RECURSIVE RunLinesStopOnBad(_, _)
RunLinesStopOnBad(ls, log) ==
    IF ls = <<>> THEN [lines |-> <<>>, parsed |-> log, cur |-> NoChunk, yielded |-> FALSE]
    ELSE LET line == Head(ls) IN
         IF Trim(line) = <<>> THEN RunLinesStopOnBad(Tail(ls), log)
         ELSE LET v == JsonParse(line) IN
              IF Yields(v)
              THEN [lines |-> Tail(ls), parsed |-> Append(log, line), cur |-> v,
                    yielded |-> TRUE]
              ELSE [lines |-> <<>>, parsed |-> Append(log, line), cur |-> NoChunk,
                    yielded |-> FALSE]

\* the for-loop over `lines`, run until it suspends at a yield or runs out:
\* the lines left after the yielding one, the texts parsed, the value yielded
RECURSIVE RunLines(_, _)
RunLines(ls, log) ==
    IF ls = <<>> THEN [lines |-> <<>>, parsed |-> log, cur |-> NoChunk, yielded |-> FALSE]
    ELSE LET line == Head(ls) IN
         IF Trim(line) = <<>> THEN RunLines(Tail(ls), log)
         ELSE LET v == JsonParse(line) IN
              IF Yields(v)
              THEN [lines |-> Tail(ls), parsed |-> Append(log, line), cur |-> v,
                    yielded |-> TRUE]
              ELSE RunLines(Tail(ls), Append(log, line))

\* mutant: the trailing partial line is not kept, each read is split alone
SplitBufferNoCarry(buf, piece) ==
    LET parts == Split(piece) IN
    [lines |-> SubSeq(parts, 1, Len(parts) - 1), buffer |-> parts[Len(parts)]]

\* mutant: the last part is not popped, it is handed on as a line as well
SplitBufferNoPop(buf, piece) ==
    [lines |-> Split(buf \o piece), buffer |-> <<>>]

\* buffer += chunk; lines = buffer.split('\n'); buffer = lines.pop() || ''
SplitBuffer(buf, piece) ==
    LET parts == Split(buf \o piece) IN
    [lines |-> SubSeq(parts, 1, Len(parts) - 1), buffer |-> parts[Len(parts)]]

\* the generator continues over `ls` with `buf` kept: it suspends at the next
\* yield, or falls out of the for-loop into the next `await reader.read()`
Resume(ls, buf) ==
    LET run == RunLines(ls, parsed) IN
    /\ buffer' = buf
    /\ lines' = run.lines
    /\ parsed' = run.parsed
    /\ cur' = run.cur
    /\ gen' = IF run.yielded THEN "yielded" ELSE "reading"
    /\ out' = IF run.yielded THEN Append(out, ConvertFromLocalFormat(run.cur)) ELSE out

\* the generator ends (return, break or an exception): the finally block
Finally(how) ==
    /\ gen' = how
    /\ held' = FALSE
    /\ UNCHANGED <<buffer, lines, cur, out, parsed>>

----------------------------------------------------------------------------
(* Stream actions *)

\* the consumer's first next(): getReader(), then the first reader.read()
StreamStart ==
    /\ gen = "unstarted"
    /\ consumer' = "next"
    /\ IF closed = "nobody"
       THEN /\ gen' = "failed"      \* 'No response body available for streaming'
            /\ UNCHANGED <<held, buffer, lines, cur, out, parsed>>
       ELSE /\ gen' = "reading"
            /\ held' = TRUE
            /\ UNCHANGED <<buffer, lines, cur, out, parsed>>
    /\ UNCHANGED <<adapterVars, facadeVars, selectVars, body, rpos, closed, joined>>

\* reader.read() resolves with the next n bytes
ReadData(n) ==
    /\ gen = "reading"
    /\ closed = "open"
    /\ rpos + n <= Len(body)
    /\ rpos' = rpos + n
    /\ LET sp == SplitBuffer(buffer, SubSeq(body, rpos + 1, rpos + n)) IN
       /\ Resume(sp.lines, sp.buffer)
       /\ joined' = (joined \/ (buffer # <<>> /\ sp.lines # <<>>))
    /\ UNCHANGED <<adapterVars, facadeVars, selectVars, body, closed, held, consumer>>

\* reader.read() resolves with done: break, finally
ReadEof ==
    /\ gen = "reading"
    /\ closed = "open"
    /\ rpos = Len(body)
    /\ closed' = "eof"
    /\ Finally("returned")
    /\ UNCHANGED <<adapterVars, facadeVars, selectVars, body, rpos, consumer, joined>>

\* reader.read() rejects: the exception leaves through the finally
ReadError ==
    /\ gen = "reading"
    /\ closed = "open"
    /\ closed' = "error"
    /\ Finally("failed")
    /\ UNCHANGED <<adapterVars, facadeVars, selectVars, body, rpos, consumer, joined>>

\* next() while suspended at a yield: `if (chunk.done) return`, else on
\* with the for-loop
ConsumerNext ==
    /\ gen = "yielded"
    /\ consumer' = "next"
    /\ IF cur.done
       THEN Finally("returned")
       ELSE Resume(lines, buffer) /\ UNCHANGED held
    /\ UNCHANGED <<adapterVars, facadeVars, selectVars, body, rpos, closed, joined>>

\* return() while suspended at a yield (a for-await loop left early):
\* no catch clause sees a return completion, the finally runs
ConsumerReturn ==
    /\ gen = "yielded"
    /\ consumer' = "return"
    /\ Finally("returned")
    /\ UNCHANGED <<adapterVars, facadeVars, selectVars, body, rpos, closed, joined>>

\* throw(e) while suspended at a yield: the yield sits inside the try whose
\* catch logs a parse failure, so e is caught there and the for-loop goes on
ConsumerThrow ==
    /\ gen = "yielded"
    /\ consumer' = "throw"
    /\ Resume(lines, buffer)
    /\ UNCHANGED <<adapterVars, facadeVars, selectVars, body, rpos, closed, held, joined>>

AdapterIdle ==
    /\ config = [model |-> Llama, maxRetries |-> DefaultRetries, timeout |-> OllamaTimeout]
    /\ call = [c \in {"c1"} |-> IdleCall]
    /\ updates = 0

\* processStreamResponse(response) has been called on a success response
InitStream ==
    /\ AdapterIdle
    /\ FacadeIdle
    /\ SelectIdle
    /\ \E b \in Bodies(MaxLines), t \in TailTexts : body = b \o t
    /\ closed \in {"open", "nobody"}
    /\ rpos = 0 /\ buffer = <<>> /\ lines = <<>> /\ cur = NoChunk
    /\ gen = "unstarted" /\ held = FALSE /\ out = <<>> /\ parsed = <<>>
    /\ consumer = "none" /\ joined = FALSE

NextStream ==
    \/ StreamStart
    \/ \E n \in 1..Len(body) : ReadData(n)
    \/ ReadEof
    \/ ReadError
    \/ ConsumerNext
    \/ ConsumerReturn
    \/ ConsumerThrow

SpecStream == InitStream /\ [][NextStream]_vars

----------------------------------------------------------------------------
(* The model catalog (modelCatalog) *)

Caps(name, speed, quality, strengths) ==
    [name |-> name, speed |-> speed, quality |-> quality, strengths |-> strengths]

MODEL_CATALOG ==
    << Caps("qwen3-coder:latest", "medium", "excellent", {"coding", "analysis", "reasoning"}),
       Caps("gpt-oss:latest", "slow", "excellent", {"general", "reasoning", "creative", "coding"}),
       Caps("llama3.1:latest", "medium", "good", {"general", "conversation", "coding", "reasoning"}),
       Caps("gemma3:4b", "medium", "good", {"math", "reasoning", "general"}),
       Caps("phi3:mini", "fast", "good", {"lightweight", "conversation", "reasoning"}),
       Caps("tinyllama:latest", "fast", "basic", {"lightweight", "conversation"}) >>

\* MODEL_CATALOG.map(m => m.name), as a set
CatalogNames == {MODEL_CATALOG[i].name : i \in 1..Len(MODEL_CATALOG)}

TaskTypes ==
    {"code_generation", "code_review", "debugging", "documentation", "general_chat",
     "file_analysis", "project_planning", "quick_questions", "complex_reasoning",
     "creative_writing"}

Prefs(strengths, speed, quality) ==
    [strengths |-> strengths, speed |-> speed, quality |-> quality]

TASK_TO_MODEL_PREFERENCES ==
    [t \in TaskTypes |->
        CASE t = "code_generation" -> Prefs({"coding"}, "medium", "excellent")
          [] t = "code_review" -> Prefs({"coding", "analysis"}, "medium", "good")
          [] t = "debugging" -> Prefs({"coding", "reasoning"}, "medium", "excellent")
          [] t = "documentation" -> Prefs({"general", "coding"}, "medium", "good")
          [] t = "general_chat" -> Prefs({"general", "conversation"}, "fast", "good")
          [] t = "file_analysis" -> Prefs({"analysis", "coding"}, "medium", "good")
          [] t = "project_planning" -> Prefs({"reasoning", "general"}, "medium", "excellent")
          [] t = "quick_questions" -> Prefs({"lightweight"}, "fast", "basic")
          [] t = "complex_reasoning" -> Prefs({"reasoning", "math"}, "slow", "excellent")
          [] t = "creative_writing" -> Prefs({"creative", "general"}, "medium", "excellent")]

\* prompt.toLowerCase(), on the words of a prompt
ToLowerCase(word) ==
    IF word = "DEBUG" THEN "debug"
    ELSE IF word = "Explain" THEN "explain"
    ELSE word

\* lowerPrompt.includes(keyword)
Includes(prompt, keyword) == \E w \in prompt.words : ToLowerCase(w) = keyword

\* mutant: "write" is not among the keywords of any list
IncludesAnyButWrite(prompt, keywords) ==
    \E k \in keywords \ {"write"} : Includes(prompt, k)

IncludesAny(prompt, keywords) == \E k \in keywords : Includes(prompt, k)

\* lowerPrompt.startsWith(keyword)
PromptStartsWith(prompt, keyword) == ToLowerCase(prompt.first) = keyword

\* projectContext?.hasCodeFiles
HasCodeFiles(project) == project = "code"

\* mutant: the planning rule is tried before the creative rule
analyzeTaskTypePlanningEarly(prompt, project) ==
    IF IncludesAny(prompt, {"debug", "error", "fix"}) THEN "debugging"
    ELSE IF IncludesAny(prompt, {"code", "function", "implement", "write"})
         THEN "code_generation"
    ELSE IF IncludesAny(prompt, {"review", "improve", "refactor"}) THEN "code_review"
    ELSE IF IncludesAny(prompt, {"document", "readme", "comment"}) THEN "documentation"
    ELSE IF IncludesAny(prompt, {"analyze", "examine", "explain"})
         THEN IF HasCodeFiles(project) THEN "file_analysis" ELSE "general_chat"
    ELSE IF prompt.length < 50
            /\ (Includes(prompt, "?") \/ PromptStartsWith(prompt, "what")
                \/ PromptStartsWith(prompt, "how") \/ PromptStartsWith(prompt, "why"))
         THEN "quick_questions"
    ELSE IF IncludesAny(prompt, {"plan", "architecture", "design"}) THEN "project_planning"
    ELSE IF Includes(prompt, "write") \/ Includes(prompt, "create")
            \/ (Includes(prompt, "generate") /\ ~Includes(prompt, "code"))
         THEN "creative_writing"
    ELSE IF IncludesAny(prompt, {"calculate", "solve", "math"}) THEN "complex_reasoning"
    ELSE "general_chat"

analyzeTaskType(prompt, project) ==
    IF IncludesAny(prompt, {"debug", "error", "fix"}) THEN "debugging"
    ELSE IF IncludesAny(prompt, {"code", "function", "implement", "write"})
         THEN "code_generation"
    ELSE IF IncludesAny(prompt, {"review", "improve", "refactor"}) THEN "code_review"
    ELSE IF IncludesAny(prompt, {"document", "readme", "comment"}) THEN "documentation"
    ELSE IF IncludesAny(prompt, {"analyze", "examine", "explain"})
         THEN IF HasCodeFiles(project) THEN "file_analysis" ELSE "general_chat"
    ELSE IF prompt.length < 50
            /\ (Includes(prompt, "?") \/ PromptStartsWith(prompt, "what")
                \/ PromptStartsWith(prompt, "how") \/ PromptStartsWith(prompt, "why"))
         THEN "quick_questions"
    ELSE IF Includes(prompt, "write") \/ Includes(prompt, "create")
            \/ (Includes(prompt, "generate") /\ ~Includes(prompt, "code"))
         THEN "creative_writing"
    ELSE IF IncludesAny(prompt, {"plan", "architecture", "design"}) THEN "project_planning"
    ELSE IF IncludesAny(prompt, {"calculate", "solve", "math"}) THEN "complex_reasoning"
    ELSE "general_chat"

\* mutant: matching strengths count once, however many match
ScoreAgainstAnyStrength(model, preferences) ==
    (IF model.strengths \cap preferences.strengths # {} THEN 3 ELSE 0)
    + (IF preferences.quality = model.quality THEN 2 ELSE 0)
    + (IF preferences.speed = model.speed THEN 1 ELSE 0)

\* the score of a model under one row of a preference table
ScoreAgainst(model, preferences) ==
    3 * Cardinality({st \in model.strengths : st \in preferences.strengths})
    + (IF preferences.quality = model.quality THEN 2 ELSE 0)
    + (IF preferences.speed = model.speed THEN 1 ELSE 0)

scoreModelForTask(model, taskType) ==
    ScoreAgainst(model, TASK_TO_MODEL_PREFERENCES[taskType])

\* mutant: an item goes before the items of equal score
RECURSIVE InsertByScoreUnstable(_, _)
InsertByScoreUnstable(sorted, item) ==
    IF sorted = <<>> THEN << item >>
    ELSE IF Head(sorted).score > item.score
         THEN << Head(sorted) >> \o InsertByScoreUnstable(Tail(sorted), item)
         ELSE << item >> \o sorted

\* one scored item put into a list already sorted by descending score, after
\* every item that does not score less (the sort is stable)
RECURSIVE InsertByScore(_, _)
InsertByScore(sorted, item) ==
    IF sorted = <<>> THEN << item >>
    ELSE IF Head(sorted).score >= item.score
         THEN << Head(sorted) >> \o InsertByScore(Tail(sorted), item)
         ELSE << item >> \o sorted

\* scored.sort((a, b) => b.score - a.score)
RECURSIVE SortByScore(_)
SortByScore(scored) ==
    IF scored = <<>> THEN <<>>
    ELSE InsertByScore(SortByScore(SubSeq(scored, 1, Len(scored) - 1)),
                       scored[Len(scored)])

NullModel == Caps("", "", "", {})

\* mutant: every catalog model is a candidate, installed or not
recommendModelUnfiltered(taskType, availableModels) ==
    LET scored == [i \in 1..Len(MODEL_CATALOG) |->
                      [model |-> MODEL_CATALOG[i],
                       score |-> scoreModelForTask(MODEL_CATALOG[i], taskType)]]
    IN SortByScore(scored)[1].model

\* mutant: a best candidate that scores 0 is not recommended
recommendModelRequiresMatch(taskType, availableModels) ==
    LET candidates == SelectSeq(MODEL_CATALOG, LAMBDA m : m.name \in availableModels)
        scored == [i \in 1..Len(candidates) |->
                      [model |-> candidates[i],
                       score |-> scoreModelForTask(candidates[i], taskType)]]
    IN IF Len(candidates) = 0 THEN NullModel
       ELSE IF SortByScore(scored)[1].score = 0 THEN NullModel
       ELSE SortByScore(scored)[1].model

recommendModel(taskType, availableModels) ==
    LET candidates == SelectSeq(MODEL_CATALOG, LAMBDA m : m.name \in availableModels)
        scored == [i \in 1..Len(candidates) |->
                      [model |-> candidates[i],
                       score |-> scoreModelForTask(candidates[i], taskType)]]
    IN IF Len(candidates) = 0 THEN NullModel
       ELSE SortByScore(scored)[1].model

----------------------------------------------------------------------------
(* The model selection service (ModelSelectionService) *)

\* mutant: the service's copy was not updated with the catalog's debugging row
getTaskPreferencesStale(taskType) ==
    IF taskType = "debugging" THEN Prefs({"analysis"}, "fast", "good")
    ELSE TASK_TO_MODEL_PREFERENCES[taskType]

\* the service's own copy of the preference table
getTaskPreferences(taskType) ==
    CASE taskType = "code_generation" -> Prefs({"coding"}, "medium", "excellent")
      [] taskType = "code_review" -> Prefs({"coding", "analysis"}, "medium", "good")
      [] taskType = "debugging" -> Prefs({"coding", "reasoning"}, "medium", "excellent")
      [] taskType = "documentation" -> Prefs({"general", "coding"}, "medium", "good")
      [] taskType = "general_chat" -> Prefs({"general", "conversation"}, "fast", "good")
      [] taskType = "file_analysis" -> Prefs({"analysis", "coding"}, "medium", "good")
      [] taskType = "project_planning" -> Prefs({"reasoning", "general"}, "medium", "excellent")
      [] taskType = "quick_questions" -> Prefs({"lightweight"}, "fast", "basic")
      [] taskType = "complex_reasoning" -> Prefs({"reasoning", "math"}, "slow", "excellent")
      [] taskType = "creative_writing" -> Prefs({"creative", "general"}, "medium", "excellent")

\* the service's private scoreModelForTask
ServiceScoreModelForTask(model, taskType) ==
    LET preferences == getTaskPreferences(taskType) IN
    3 * Cardinality({st \in model.strengths : st \in preferences.strengths})
    + (IF preferences.quality = model.quality THEN 2 ELSE 0)
    + (IF preferences.speed = model.speed THEN 1 ELSE 0)

\* Array.prototype.slice(0, n)
Slice(seq, n) == SubSeq(seq, 1, IF Len(seq) < n THEN Len(seq) ELSE n)

\* mutant: the selected model is not left out of the alternatives
getAlternativesWithSelected(selectedModel, taskType, availableModels) ==
    LET others == SelectSeq(MODEL_CATALOG, LAMBDA m : m.name \in availableModels)
        scored == [i \in 1..Len(others) |->
                      [model |-> others[i],
                       score |-> ServiceScoreModelForTask(others[i], taskType)]]
        top == Slice(SortByScore(scored), 2)
    IN [i \in 1..Len(top) |-> top[i].model]

getAlternatives(selectedModel, taskType, availableModels) ==
    LET others == SelectSeq(MODEL_CATALOG,
                         LAMBDA m : m.name # selectedModel.name
                                    /\ m.name \in availableModels)
        scored == [i \in 1..Len(others) |->
                      [model |-> others[i],
                       score |-> ServiceScoreModelForTask(others[i], taskType)]]
        top == Slice(SortByScore(scored), 2)
    IN [i \in 1..Len(top) |-> top[i].model]

\* confidences are counted in hundredths: 0.5 is 50, 1.0 is 100

\* the sum calculateConfidence builds before it clamps
SummedConfidence(model, taskType, context) ==
    LET taskPreferences == getTaskPreferences(taskType) IN
    50
    + 15 * Cardinality({st \in model.strengths : st \in taskPreferences.strengths})
    + (IF taskPreferences.quality = model.quality THEN 10 ELSE 0)
    + (IF taskPreferences.speed = model.speed THEN 5 ELSE 0)
    + (IF HasCodeFiles(context.project) /\ "coding" \in model.strengths THEN 10 ELSE 0)
    + (IF context.prompt.length > 500 /\ model.quality = "excellent" THEN 10
       ELSE IF context.prompt.length < 100 /\ model.speed = "fast" THEN 10
       ELSE 0)

\* mutant: the sum is returned as it is
MathMinLeft(a, b) == a

\* Math.min
MathMin(a, b) == IF a < b THEN a ELSE b

calculateConfidence(model, taskType, context) ==
    MathMin(SummedConfidence(model, taskType, context), 100)

\* JavaScript numbers are IEEE-754 doubles. A double d with 0 <= d < 2 is
\* written as three limbs <<a, b, c>> in base 2^19: d = (a*2^38 + b*2^19 + c) / 2^57
LimbBase == 2^19

\* the literals of calculateConfidence and shouldSwitchModel as doubles
DoubleZero == <<0, 0, 0>>
DoubleBase == <<262144, 0, 0>>                  \* 0.5
DoublePerStrength == <<78643, 104857, 314572>>  \* 0.15
DoubleQuality == <<52428, 419430, 209716>>      \* 0.1
DoubleSpeed == <<26214, 209715, 104858>>        \* 0.05
DoubleOne == <<524288, 0, 0>>                   \* 1.0
DoubleSwitchAbove == <<367001, 314572, 419424>> \* 0.7

\* the exact sum of two limb triples
ExactAdd(x, y) ==
    LET c == x[3] + y[3]
        b == x[2] + y[2] + (c \div LimbBase)
        a == x[1] + y[1] + (b \div LimbBase)
    IN << a, b % LimbBase, c % LimbBase >>

\* the spacing of the doubles around v, in units of 2^-57 (53-bit significand)
Spacing(v) ==
    IF v[1] >= LimbBase THEN 32
    ELSE IF v[1] >= LimbBase \div 2 THEN 16
    ELSE IF v[1] >= LimbBase \div 4 THEN 8
    ELSE IF v[1] >= LimbBase \div 8 THEN 4
    ELSE IF v[1] >= LimbBase \div 16 THEN 2
    ELSE 1

\* round to the nearest double, ties to the even significand
RoundToDouble(v) ==
    LET g == Spacing(v)
        rem == v[3] % g
        down == v[3] - rem
        up == rem * 2 > g \/ (rem * 2 = g /\ (down \div g) % 2 = 1)
    IN IF up THEN ExactAdd(<< v[1], v[2], down >>, << 0, 0, g >>)
       ELSE << v[1], v[2], down >>

\* x + y on doubles
DoubleAdd(x, y) == RoundToDouble(ExactAdd(x, y))

\* n * x on doubles, n a small count
RECURSIVE ExactTimes(_, _)
ExactTimes(n, x) == IF n = 0 THEN DoubleZero ELSE ExactAdd(ExactTimes(n - 1, x), x)

DoubleTimes(n, x) == RoundToDouble(ExactTimes(n, x))

\* x > y on doubles
DoubleGreater(x, y) ==
    \/ x[1] > y[1]
    \/ x[1] = y[1] /\ x[2] > y[2]
    \/ x[1] = y[1] /\ x[2] = y[2] /\ x[3] > y[3]

\* calculateConfidence on doubles: the additions in the order of the code
ConfidenceAsDouble(model, taskType, context) ==
    LET taskPreferences == getTaskPreferences(taskType)
        matchingStrengths ==
            Cardinality({st \in model.strengths : st \in taskPreferences.strengths})
        c1 == DoubleAdd(DoubleBase, DoubleTimes(matchingStrengths, DoublePerStrength))
        c2 == IF taskPreferences.quality = model.quality
              THEN DoubleAdd(c1, DoubleQuality) ELSE c1
        c3 == IF taskPreferences.speed = model.speed
              THEN DoubleAdd(c2, DoubleSpeed) ELSE c2
        c4 == IF HasCodeFiles(context.project) /\ "coding" \in model.strengths
              THEN DoubleAdd(c3, DoubleQuality) ELSE c3
        c5 == IF context.prompt.length > 500 /\ model.quality = "excellent"
              THEN DoubleAdd(c4, DoubleQuality)
              ELSE IF context.prompt.length < 100 /\ model.speed = "fast"
              THEN DoubleAdd(c4, DoubleQuality)
              ELSE c4
    IN IF DoubleGreater(c5, DoubleOne) THEN DoubleOne ELSE c5

\* a ModelRecommendation, or the error thrown; `path` and `summed` record how
\* it came about
Recommendation(path, model, taskType, confidence, alternatives, summed) ==
    [outcome |-> "recommendation", path |-> path, model |-> model,
     taskType |-> taskType, confidence |-> confidence,
     alternatives |-> alternatives, summed |-> summed, error |-> ""]

Thrown(path, taskType, msg) ==
    [outcome |-> "threw", path |-> path, model |-> NullModel, taskType |-> taskType,
     confidence |-> 0, alternatives |-> <<>>, summed |-> 0, error |-> msg]

\* Array.prototype.find, given the elements that satisfy the test in order:
\* the first of them, or undefined
Find(hits) == IF hits = <<>> THEN NullModel ELSE hits[1]

\* mutant: without an available catalog model the first catalog model is
\* returned as the fallback
FallbackFirstOfCatalog(taskType, availableModels) ==
    Recommendation("fallback", MODEL_CATALOG[1], taskType, 30, <<>>, 30)

\* recommend when recommendModel returned null
Fallback(taskType, availableModels) ==
    LET fallbackModel == Find(SelectSeq(MODEL_CATALOG, LAMBDA m : m.name \in availableModels)) IN
    IF fallbackModel = NullModel
    THEN Thrown("fallback", taskType, "No available models found")
    ELSE Recommendation("fallback", fallbackModel, taskType, 30, <<>>, 30)

\* context.availableModels || MODEL_CATALOG.map(m => m.name)
AvailableModels(context) ==
    IF context.available.given THEN context.available.names ELSE CatalogNames

\* the condition of the manual branch
ManualRequested(context) ==
    /\ context.prefs.mode = "manual"
    /\ context.prefs.preferred # ""
    /\ context.prefs.preferred \in AvailableModels(context)

recommend(context) ==
    LET taskType == analyzeTaskType(context.prompt, context.project)
        availableModels == AvailableModels(context)
        preferredModel == Find(SelectSeq(MODEL_CATALOG,
                                   LAMBDA m : m.name = context.prefs.preferred))
        recommendedModel == recommendModel(taskType, availableModels)
    IN IF ManualRequested(context) /\ preferredModel # NullModel
       THEN Recommendation("manual", preferredModel, taskType, 100,
                getAlternatives(preferredModel, taskType, availableModels), 100)
       ELSE IF recommendedModel = NullModel
       THEN Fallback(taskType, availableModels)
       ELSE Recommendation("automatic", recommendedModel, taskType,
                calculateConfidence(recommendedModel, taskType, context),
                getAlternatives(recommendedModel, taskType, availableModels),
                SummedConfidence(recommendedModel, taskType, context))

\* a prompt: the keywords it contains, its first word, its length
Prompt(words, first, length) == [words |-> words, first |-> first, length |-> length]

Prompts ==
    { Prompt({"DEBUG"}, "DEBUG", 20),
      Prompt({"fix", "code"}, "fix", 23),
      Prompt({"write", "function"}, "write", 80),
      Prompt({"review"}, "please", 200),
      Prompt({"readme"}, "update", 600),
      Prompt({"Explain"}, "Explain", 600),
      Prompt({"?"}, "is", 20),
      Prompt({}, "what", 49),
      Prompt({}, "what", 50),
      Prompt({"create"}, "create", 200),
      Prompt({"generate", "code"}, "generate", 80),
      Prompt({"generate"}, "generate", 80),
      Prompt({"plan"}, "plan", 600),
      Prompt({"solve"}, "solve", 600) }

\* projectContext: absent, or with hasCodeFiles false or true
ProjectContexts == {"absent", "nocode", "code"}

\* a model name outside the catalog
Unlisted == "mistral:latest"

\* userPreferences: absent, or a mode with or without a preferred model
UserPreferences ==
    { [mode |-> "none", preferred |-> ""],
      [mode |-> "auto", preferred |-> "qwen3-coder:latest"],
      [mode |-> "manual", preferred |-> ""],
      [mode |-> "manual", preferred |-> "qwen3-coder:latest"],
      [mode |-> "manual", preferred |-> "tinyllama:latest"],
      [mode |-> "manual", preferred |-> Unlisted] }

\* availableModels: absent, or any set of catalog names and the unlisted one
AvailableSets ==
    { [given |-> FALSE, names |-> {}] }
    \cup { [given |-> TRUE, names |-> ns] : ns \in SUBSET (CatalogNames \cup {Unlisted}) }

Contexts ==
    [prompt : Prompts, project : ProjectContexts, prefs : UserPreferences,
     available : AvailableSets]

\* ModelSelectionService.recommend(context)
Recommend ==
    /\ rec = NoRecommendation
    /\ rec' = recommend(ctx)
    /\ UNCHANGED <<adapterVars, streamVars, facadeVars, ctx>>

\* recommendModel(taskType, availableModels) called on its own; without the
\* second argument the default is every catalog name
CallRecommendModel(taskType) ==
    /\ rec = NoRecommendation
    /\ ctx.prompt = Prompt({}, "what", 50) /\ ctx.project = "absent"
    /\ ctx.prefs.mode = "none"
    /\ LET model == recommendModel(taskType, AvailableModels(ctx)) IN
       rec' = [outcome |-> IF model = NullModel THEN "null" ELSE "model",
               path |-> "recommendModel", model |-> model, taskType |-> taskType,
               confidence |-> 0, alternatives |-> <<>>, summed |-> 0, error |-> ""]
    /\ UNCHANGED <<adapterVars, streamVars, facadeVars, ctx>>

InitSelect ==
    /\ AdapterIdle
    /\ StreamIdle
    /\ FacadeIdle
    /\ ctx \in Contexts
    /\ rec = NoRecommendation

NextSelect ==
    \/ Recommend
    \/ \E t \in TaskTypes : CallRecommendModel(t)

SpecSelect == InitSelect /\ [][NextSelect]_vars

\* the characters of a catalog model's name and of its display name
NameText(n) ==
    CASE
         n = "qwen3-coder:latest" ->
           << "q", "w", "e", "n", "3", "-", "c", "o", "d", "e", "r", ":", "l", "a", "t", "e", "s", "t" >>
      [] n = "gpt-oss:latest" ->
           << "g", "p", "t", "-", "o", "s", "s", ":", "l", "a", "t", "e", "s", "t" >>
      [] n = "llama3.1:latest" ->
           << "l", "l", "a", "m", "a", "3", ".", "1", ":", "l", "a", "t", "e", "s", "t" >>
      [] n = "gemma3:4b" ->
           << "g", "e", "m", "m", "a", "3", ":", "4", "b" >>
      [] n = "phi3:mini" ->
           << "p", "h", "i", "3", ":", "m", "i", "n", "i" >>
      [] n = "tinyllama:latest" ->
           << "t", "i", "n", "y", "l", "l", "a", "m", "a", ":", "l", "a", "t", "e", "s", "t" >>

DisplayNameText(n) ==
    CASE
         n = "qwen3-coder:latest" ->
           << "Q", "w", "e", "n", "3", " ", "C", "o", "d", "e", "r" >>
      [] n = "gpt-oss:latest" ->
           << "G", "P", "T", "-", "O", "S", "S", " ", "2", "0", "B" >>
      [] n = "llama3.1:latest" ->
           << "L", "l", "a", "m", "a", " ", "3", ".", "1" >>
      [] n = "gemma3:4b" ->
           << "G", "e", "m", "m", "a", " ", "3", " ", "4", "B" >>
      [] n = "phi3:mini" ->
           << "P", "h", "i", "-", "3", " ", "M", "i", "n", "i" >>
      [] n = "tinyllama:latest" ->
           << "T", "i", "n", "y", "L", "l", "a", "m", "a" >>

\* String.prototype.toLowerCase, character by character
LowerChar(ch) ==
    CASE ch = "B" -> "b"
      [] ch = "C" -> "c"
      [] ch = "G" -> "g"
      [] ch = "L" -> "l"
      [] ch = "M" -> "m"
      [] ch = "O" -> "o"
      [] ch = "P" -> "p"
      [] ch = "Q" -> "q"
      [] ch = "S" -> "s"
      [] ch = "T" -> "t"
      [] OTHER -> ch

LowerText(t) == [i \in 1..Len(t) |-> LowerChar(t[i])]

\* String.prototype.includes
IncludesText(hay, needle) ==
    \E k \in 0..(Len(hay) - Len(needle)) : SubSeq(hay, k + 1, k + Len(needle)) = needle

\* nameLower.split(':')[0]
BaseName(t) ==
    IF \A i \in 1..Len(t) : t[i] # ":" THEN t
    ELSE SubSeq(t, 1, (CHOOSE i \in 1..Len(t) :
                          t[i] = ":" /\ \A j \in 1..(i - 1) : t[j] # ":") - 1)

\* getModelInfo: exact name, display name without case, part of a display
\* name either way round, then base name or a prefix of the name
getModelInfo(modelName) ==
    LET inputLower == LowerText(modelName)
        byName == SelectSeq(MODEL_CATALOG, LAMBDA m : NameText(m.name) = modelName)
        byDisplay == SelectSeq(MODEL_CATALOG,
            LAMBDA m : LowerText(DisplayNameText(m.name)) = inputLower)
        byPart == SelectSeq(MODEL_CATALOG,
            LAMBDA m : \/ IncludesText(LowerText(DisplayNameText(m.name)), inputLower)
                       \/ IncludesText(inputLower, LowerText(DisplayNameText(m.name))))
        byBase == SelectSeq(MODEL_CATALOG,
            LAMBDA m : \/ BaseName(LowerText(NameText(m.name))) = inputLower
                       \/ StartsWith(LowerText(NameText(m.name)), inputLower))
    IN IF modelName = <<>> THEN NullModel
       ELSE IF byName # <<>> THEN byName[1]
       ELSE IF byDisplay # <<>> THEN byDisplay[1]
       ELSE IF byPart # <<>> THEN byPart[1]
       ELSE Find(byBase)

DoubleFallback == <<157286, 209715, 104856>>    \* 0.3

\* recommendation.confidence as the double the code holds
confidenceValue(recommendation, context) ==
    IF recommendation.path = "manual" THEN DoubleOne
    ELSE IF recommendation.path = "fallback" THEN DoubleFallback
    ELSE ConfidenceAsDouble(recommendation.model, recommendation.taskType, context)

NoSwitch(recommendation, currentScore, newScore) ==
    [outcome |-> "advice", path |-> "shouldSwitchModel", shouldSwitch |-> FALSE,
     recommendedModel |-> NullModel, recommendation |-> recommendation,
     currentScore |-> currentScore, newScore |-> newScore]

shouldSwitchModel(currentModel, context) ==
    LET recommendation == recommend(context)
        currentModelInfo == getModelInfo(currentModel)
        currentScore == IF currentModelInfo # NullModel
                        THEN ServiceScoreModelForTask(currentModelInfo,
                                                      recommendation.taskType)
                        ELSE 0
        newScore == ServiceScoreModelForTask(recommendation.model,
                                             recommendation.taskType)
    IN IF recommendation.outcome = "threw" THEN recommendation
       ELSE IF NameText(recommendation.model.name) = currentModel
       THEN NoSwitch(recommendation, 0, 0)
       ELSE IF DoubleGreater(confidenceValue(recommendation, context), DoubleSwitchAbove)
               /\ newScore > currentScore + 2
       THEN [NoSwitch(recommendation, currentScore, newScore)
                EXCEPT !.shouldSwitch = TRUE,
                       !.recommendedModel = recommendation.model]
       ELSE NoSwitch(recommendation, currentScore, newScore)

\* the current model names a caller passes to shouldSwitchModel: a catalog
\* name, a display name, part of a display name, a name without its tag, a
\* name outside the catalog, another catalog name, the empty string
CurrentModels ==
    { << "q", "w", "e", "n", "3", "-", "c", "o", "d", "e", "r", ":", "l", "a", "t", "e", "s", "t" >>,
      << "Q", "w", "e", "n", "3", " ", "C", "o", "d", "e", "r" >>,
      << "l", "l", "a", "m", "a" >>,
      << "p", "h", "i", "3" >>,
      << "m", "i", "s", "t", "r", "a", "l", ":", "l", "a", "t", "e", "s", "t" >>,
      << "t", "i", "n", "y", "l", "l", "a", "m", "a", ":", "l", "a", "t", "e", "s", "t" >>,
      <<>> }

SwitchContexts ==
    [prompt : { Prompt({"DEBUG"}, "DEBUG", 20),
                Prompt({"Explain"}, "Explain", 600),
                Prompt({}, "what", 50),
                Prompt({"plan"}, "plan", 600) },
     project : ProjectContexts,
     prefs : { [mode |-> "none", preferred |-> ""],
               [mode |-> "manual", preferred |-> "qwen3-coder:latest"],
               [mode |-> "manual", preferred |-> "tinyllama:latest"] },
     available : AvailableSets,
     current : CurrentModels]

\* ModelSelectionService.shouldSwitchModel(currentModel, context)
ShouldSwitchModel ==
    /\ rec = NoRecommendation
    /\ rec' = shouldSwitchModel(ctx.current, ctx)
    /\ UNCHANGED <<adapterVars, streamVars, facadeVars, ctx>>

InitSwitch ==
    /\ AdapterIdle
    /\ StreamIdle
    /\ FacadeIdle
    /\ ctx \in SwitchContexts
    /\ rec = NoRecommendation

SpecSwitch == InitSwitch /\ [][ShouldSwitchModel]_vars

\* the keywords analyzeTaskType looks for, two of them also in capitals
Keywords ==
    { "debug", "error", "fix", "code", "function", "implement", "write",
      "review", "improve", "refactor", "document", "readme", "comment",
      "analyze", "examine", "explain", "?", "create", "generate",
      "plan", "architecture", "design", "calculate", "solve", "math",
      "DEBUG", "Explain" }

MaxKeywords == 2

\* prompts holding up to MaxKeywords keywords, starting with an interrogative
\* or with another word, on either side of the length 50
ClassifyContexts ==
    LET upTo[n \in 0..MaxKeywords] ==
            IF n = 0 THEN {{}}
            ELSE upTo[n - 1] \cup {ws \cup {k} : ws \in upTo[n - 1], k \in Keywords}
    IN [prompt : { Prompt(words, first, length) :
                       words \in upTo[MaxKeywords],
                       first \in {"what", "how", "why", "please"},
                       length \in {49, 50} },
        project : ProjectContexts]

\* analyzeTaskType(prompt, projectContext)
AnalyzeTaskType ==
    /\ rec = NoRecommendation
    /\ rec' = [outcome |-> "taskType", path |-> "analyzeTaskType",
               taskType |-> analyzeTaskType(ctx.prompt, ctx.project)]
    /\ UNCHANGED <<adapterVars, streamVars, facadeVars, ctx>>

InitClassify ==
    /\ AdapterIdle
    /\ StreamIdle
    /\ FacadeIdle
    /\ ctx \in ClassifyContexts
    /\ rec = NoRecommendation

SpecClassify == InitClassify /\ [][AnalyzeTaskType]_vars

\* the strength tags, speeds and qualities of ModelCapabilities
StrengthTags ==
    { "coding", "general", "lightweight", "math", "reasoning", "conversation",
      "analysis", "creative", "multilingual" }

\* scoreModelForTask(model, taskType) for any model descriptor
ScoreInputs ==
    [model : { Caps("candidate", speed, quality, strengths) :
                   speed \in {"fast", "medium", "slow"},
                   quality \in {"excellent", "good", "basic"},
                   strengths \in SUBSET StrengthTags },
     taskType : TaskTypes]

ScoreModelForTask ==
    /\ rec = NoRecommendation
    /\ rec' = [outcome |-> "score", path |-> "scoreModelForTask",
               score |-> scoreModelForTask(ctx.model, ctx.taskType)]
    /\ UNCHANGED <<adapterVars, streamVars, facadeVars, ctx>>

InitScore ==
    /\ AdapterIdle
    /\ StreamIdle
    /\ FacadeIdle
    /\ ctx \in ScoreInputs
    /\ rec = NoRecommendation

SpecScore == InitScore /\ [][ScoreModelForTask]_vars

Validation(isValid, actualModelName, hasList, availableModels, error) ==
    [outcome |-> "validation", path |-> "validateModelWithOllama",
     isValid |-> isValid, actualModelName |-> actualModelName,
     hasList |-> hasList, availableModels |-> availableModels, error |-> error]

\* mutant: the prefix search is not preceded by the search for the exact name
validateModelWithOllamaPrefixOnly(modelName, backend) ==
    LET availableNames == backend.installed
        matching == SelectSeq(availableNames,
            LAMBDA name : \/ StartsWith(name, modelName)
                          \/ StartsWith(name, LowerText(modelName)))
    IN IF ~backend.imported \/ (backend.running /\ ~backend.listed)
       THEN Validation(FALSE, NoModel, FALSE, <<>>, "Failed to validate")
       ELSE IF ~backend.running
       THEN Validation(FALSE, NoModel, FALSE, <<>>, "not running")
       ELSE IF matching # <<>>
       THEN Validation(TRUE, matching[1], TRUE, availableNames, "")
       ELSE Validation(FALSE, NoModel, TRUE, availableNames, "not found")

\* validateModelWithOllama: the import, isAvailable, listModels, the exact
\* match, the prefix match; whatever is thrown on the way is caught
validateModelWithOllama(modelName, backend) ==
    LET availableNames == backend.installed
        matching == SelectSeq(availableNames,
            LAMBDA name : \/ StartsWith(name, modelName)
                          \/ StartsWith(name, LowerText(modelName)))
    IN IF ~backend.imported \/ (backend.running /\ ~backend.listed)
       THEN Validation(FALSE, NoModel, FALSE, <<>>, "Failed to validate")
       ELSE IF ~backend.running
       THEN Validation(FALSE, NoModel, FALSE, <<>>, "not running")
       ELSE IF \E i \in 1..Len(availableNames) : availableNames[i] = modelName
       THEN Validation(TRUE, modelName, TRUE, availableNames, "")
       ELSE IF matching # <<>>
       THEN Validation(TRUE, matching[1], TRUE, availableNames, "")
       ELSE Validation(FALSE, NoModel, TRUE, availableNames, "not found")

MaxInstalled == 2

\* requested names ("", "llama3", "Llama3", "llama3:latest", "phi3", "x") and
\* what the backend does: the provider module fails to load, the backend is
\* down, the listing throws, or it lists up to MaxInstalled different names
\* of "llama3", "llama3:latest", "Llama3:latest", "phi3:mini", "mistral"
ValidateInputs ==
    LET names == { <<"l">>, <<"l", ":">>, <<"L", ":">>, <<"p", ":">>, <<"m">> }
        lists == { l \in UNION {[1..k -> names] : k \in 0..MaxInstalled} :
                      \A i, j \in 1..Len(l) : l[i] = l[j] => i = j }
        down == { [imported |-> FALSE, running |-> FALSE, listed |-> FALSE, installed |-> <<>>],
                  [imported |-> TRUE, running |-> FALSE, listed |-> FALSE, installed |-> <<>>],
                  [imported |-> TRUE, running |-> TRUE, listed |-> FALSE, installed |-> <<>>] }
        up == { [imported |-> TRUE, running |-> TRUE, listed |-> TRUE, installed |-> l] :
                    l \in lists }
    IN [modelName : { <<>>, <<"l">>, <<"L">>, <<"l", ":">>, <<"p">>, <<"x">> },
        backend : down \cup up]

\* ModelSelectionService.validateModelWithOllama(modelName)
ValidateModelWithOllama ==
    /\ rec = NoRecommendation
    /\ rec' = validateModelWithOllama(ctx.modelName, ctx.backend)
    /\ UNCHANGED <<adapterVars, streamVars, facadeVars, ctx>>

InitValidate ==
    /\ AdapterIdle
    /\ StreamIdle
    /\ FacadeIdle
    /\ ctx \in ValidateInputs
    /\ rec = NoRecommendation

SpecValidate == InitValidate /\ [][ValidateModelWithOllama]_vars

----------------------------------------------------------------------------
(* Properties of the adapter *)

GenerationFailed == Result("Error", "Failed to generate content", NoModel, <<>>)

\* C1: with the default retry budget 3, a generateContent whose chat attempts
\* are all answered with a non-success response issues exactly 4 chat attempts,
\* one at a time and each retry after one delay, and then fails with the
\* generation error instead of returning a response.
ChatFailsAfterFourAttempts ==
    \A c \in DOMAIN call :
        LET r == call[c] IN
        (r.op = "generateContent" /\ r.phase = "chat" /\ r.budgetCfg = 3
            /\ r.seen \subseteq {"http"})
        => /\ r.attempts <= 4
           /\ r.chatSent = r.attempts
           /\ r.delays = r.attempts - 1
           /\ (r.pc = "done" => r.attempts = 4 /\ r.result = GenerationFailed
                                /\ r.last = "http")
           /\ (r.attempts = 4 /\ r.pc # "fetch" => r.pc = "done")

ChatFailedAfterFourAttempts ==
    \E c \in DOMAIN call :
        /\ call[c].op = "generateContent" /\ call[c].phase = "chat"
        /\ call[c].budgetCfg = 3 /\ call[c].seen = {"http"}
        /\ call[c].pc = "done" /\ call[c].attempts = 4
        /\ call[c].result = GenerationFailed

\* C2: for every configured maxRetries N >= 0, N = 0 included, one request
\* execution issues at most N + 1 attempts.
AttemptsWithinConfiguredBudget ==
    \A c \in DOMAIN call : call[c].attempts <= call[c].budgetCfg + 1

\* String prefix, stated on the characters
IsPrefixOf(p, s) == Len(p) <= Len(s) /\ \A i \in 1..Len(p) : s[i] = p[i]

SomeNameStartsWith(names, id) == \E i \in 1..Len(names) : IsPrefixOf(id, names[i])

\* C3: the chat request is sent only after the listing succeeded and either an
\* installed name starts with the configured model id or the automatic pull
\* ran to completion; the pull is attempted iff no installed name starts with
\* the id; no chat request is sent before the pull has finished.
ChatOnlyAfterModelPresent ==
    \A c \in DOMAIN call :
        LET r == call[c] IN
        r.op \in Generating =>
           /\ (r.chatSent > 0 =>
                 /\ r.listOk
                 /\ SomeNameStartsWith(r.installed, r.checkedModel) \/ r.pullOk)
           /\ (r.checked => (r.pullAsked <=> ~SomeNameStartsWith(r.installed, r.checkedModel)))
           /\ (~r.checked => ~r.pullAsked /\ r.chatSent = 0)
           /\ (r.pullAsked /\ ~r.pullOk => r.chatSent = 0)
           /\ (r.phase = "pull" /\ r.pc # "done" => ~r.pullOk)

ChatSentAfterPull ==
    \E c \in DOMAIN call :
        /\ call[c].op \in Generating /\ call[c].chatSent > 0
        /\ call[c].pullOk /\ call[c].frames > 0
        /\ ~SomeNameStartsWith(call[c].installed, call[c].checkedModel)

ListModelsUnreachableIsNotAvailable ==
    \A c \in DOMAIN call :
        LET r == call[c] IN
        (r.op = "listModels" /\ r.pc = "done") =>
           /\ (r.last # "ok" => r.result.kind = "LocalLLMNotAvailableError")
           /\ (r.result.kind = "models" => r.last = "ok")

\* C10: isAvailable never raises: whatever the request execution ends in, the
\* result is a boolean, true only for a success response and false whenever
\* the last attempt was a transport failure or a timeout.
IsAvailableNeverRaises ==
    \A c \in DOMAIN call :
        LET r == call[c] IN
        (r.op = "isAvailable" /\ r.pc = "done") =>
           /\ r.result.kind \in {"true", "false"}
           /\ (r.last \in {"net", "abort"} => r.result.kind = "false")
           /\ (r.result.kind = "true" <=> r.last = "ok")

IsAvailableFalseAfterTimeouts ==
    \E c \in DOMAIN call :
        /\ call[c].op = "isAvailable" /\ call[c].pc = "done"
        /\ call[c].last = "abort" /\ call[c].seen = {"reject"}
        /\ call[c].attempts > 1
        /\ call[c].result.kind = "false"

PullFailed(name) == Result("Error", "Failed to pull model", name, <<>>)

\* C11: pullModel reads the progress stream to its end: a frame that does
\* not parse is passed over and the read loop goes on; the call resolves only
\* after the stream reported its end (or the response had no body to read),
\* never while frames are still being read; it fails with the pull failure
\* when the response is not a success or the transport failed, and otherwise
\* only when reading the stream failed.
PullConsumesProgressStream ==
    \A c \in DOMAIN call :
        LET r == call[c] IN
        /\ r.op = "pullModel" =>
             /\ (r.pc = "pullRead" => r.result = Pending /\ r.last = "ok")
             /\ (r.pc = "done" => r.result.kind \in {"void", "Error"})
             /\ (r.result.kind = "void" =>
                    r.pc = "done" /\ r.last = "ok" /\ r.pullEnd \in {"eof", "nobody"})
             /\ (r.pc = "done" /\ r.last # "ok" => r.result = PullFailed(r.pullName))
             /\ (r.result.kind = "Error" =>
                    r.result = PullFailed(r.pullName)
                    /\ (r.last # "ok" \/ r.pullEnd = "error"))
             /\ (r.pc = "done" /\ r.pullEnd = "eof" => r.result.kind = "void")
        /\ (r.op \in Generating /\ r.pullOk) => r.pullEnd \in {"eof", "nobody"}
        /\ r.badFrames <= r.frames

PullResolvedAfterBadFrame ==
    \E c \in DOMAIN call :
        /\ call[c].op = "pullModel" /\ call[c].pc = "done"
        /\ call[c].result.kind = "void" /\ call[c].pullEnd = "eof"
        /\ call[c].frames = 2 /\ call[c].badFrames = 1

\* C12: an updateConfig made while a call is in flight, its waits between
\* retries included, does not reach that call: every attempt of a request
\* runs under the timeout and within the retry budget that were configured
\* when the request was entered.
InFlightRequestKeepsSnapshot ==
    \A c \in DOMAIN call :
        LET r == call[c] IN
        r.pc \in {"fetch", "delay"} =>
           /\ r.tmo = r.snapTmo
           /\ r.attempts + r.retries = RetryBudget(r.budgetCfg) + 1

\* C14: the retries left are a value of each call: whatever the other calls
\* on the same adapter do in between, a call's attempts made and retries left
\* always add up to the budget it entered with plus one (the budget is the
\* value its `retries` parameter took at entry), so it makes at most that
\* many attempts, one delay before each retry.
RetryStateIsPerCall ==
    \A c \in DOMAIN call :
        LET r == call[c] IN
        /\ r.attempts <= RetryBudget(r.budgetCfg) + 1
        /\ (r.pc \in {"fetch", "delay"} =>
               r.attempts + r.retries = RetryBudget(r.budgetCfg) + 1)
        /\ (r.attempts > 0 => r.delays = r.attempts - 1)
        /\ (r.pc = "done" /\ r.last # "ok" => r.attempts = RetryBudget(r.budgetCfg) + 1)

TwoCallsRetryingWithOwnBudgets ==
    /\ call["c1"].pc = "delay" /\ call["c1"].attempts = 2 /\ call["c1"].retries = 2
    /\ call["c2"].pc = "fetch" /\ call["c2"].attempts = 2 /\ call["c2"].retries = 0
    /\ call["c2"].budgetCfg = 1

----------------------------------------------------------------------------
(* Properties of the facade *)

\* the configuration the updates made so far must have produced: each field
\* holds the value of the last update that set it, or its initial value
LastWriteWins(init, log) ==
    [f \in ConfigFields |->
        LET setters == {i \in 1..Len(log) : f \in log[i].fields} IN
        IF setters = {} THEN init[f]
        ELSE log[CHOOSE i \in setters : \A j \in setters : j <= i].val[f]]

\* C13: every configuration getConfig returned is an object of its own:
\* writing a field of it changes neither the adapter's configuration nor any
\* other returned copy; after any sequence of updateConfig calls each field of
\* the adapter's configuration holds the value of the last update that set
\* it, and a field no update mentioned holds its initial value.
ConfigCopiesAreIndependent ==
    facade.state = "constructed" =>
        /\ heap[self] = LastWriteWins(shadow.init, shadow.log)
        /\ config = heap[self]
        /\ Len(handles) = Len(shadow.copies)
        /\ \A i \in 1..Len(handles) :
              /\ handles[i] # self
              /\ heap[handles[i]] = shadow.copies[i]
              /\ \A j \in 1..Len(handles) : handles[i] = handles[j] => i = j

ConfigCopyWrittenBetweenUpdates ==
    /\ facade.state = "constructed"
    /\ Len(shadow.log) = 2
    /\ shadow.log[1].fields \cap shadow.log[2].fields # {}
    /\ shadow.log[1] # shadow.log[2]
    /\ \E i \in 1..Len(handles) :
          /\ heap[handles[i]].model = Mistral
          /\ handles[i] < self
    /\ config.model = shadow.log[2].val.model

\* C15: a facade is constructed only for the kind 'ollama' and then has its
\* adapter; for llamafile, lmstudio, custom and any other kind the constructor
\* throws, no facade object exists and no operation of it ever runs.
NoFacadeWithoutAdapter ==
    /\ facade.state = "constructed" =>
          facade.kind = "ollama" /\ facade.adapter /\ self \in 1..Len(heap)
    /\ facade.kind \in ProviderKinds \ {"ollama"} =>
          /\ facade.state = "threw" /\ facade.error # ""
          /\ ~facade.adapter /\ self = 0 /\ heap = <<>> /\ handles = <<>>
          /\ shadow.log = <<>>

UnknownKindThrew ==
    /\ facade.kind = "other" /\ facade.state = "threw"
    /\ facade.error = "Unsupported local LLM provider"

----------------------------------------------------------------------------
(* Properties of the stream parser *)

\* the newline-terminated lines of a body, found by position
NewlineAt(b) == {i \in 1..Len(b) : b[i] = NL}

NthNewline(b, k) ==
    CHOOSE i \in NewlineAt(b) : Cardinality({j \in NewlineAt(b) : j <= i}) = k

BodyLines(b) ==
    [k \in 1..Cardinality(NewlineAt(b)) |->
        SubSeq(b, (IF k = 1 THEN 0 ELSE NthNewline(b, k - 1)) + 1, NthNewline(b, k) - 1)]

IsBlank(line) == \A i \in 1..Len(line) : line[i] = " "

NonBlankLines(b) == SelectSeq(BodyLines(b), LAMBDA l : ~IsBlank(l))

\* a line that parses to a chunk object
IsChunkLine(line) == JsonParse(line).ok /\ ~JsonParse(line).null

ItemOf(line) ==
    [text |-> JsonParse(line).content,
     finish |-> IF JsonParse(line).done THEN "STOP" ELSE "none"]

\* the items of a sequence of lines: one per chunk line, in order
ItemsOf(ls) ==
    LET chunks == SelectSeq(ls, IsChunkLine) IN
    [i \in 1..Len(chunks) |-> ItemOf(chunks[i])]

IsSeqPrefix(p, s) == Len(p) <= Len(s) /\ \A i \in 1..Len(p) : s[i] = p[i]

\* the lines up to and including the first done:true chunk line
RECURSIVE UpToDone(_)
UpToDone(ls) ==
    IF ls = <<>> THEN <<>>
    ELSE IF IsChunkLine(Head(ls)) /\ JsonParse(Head(ls)).done THEN << Head(ls) >>
    ELSE << Head(ls) >> \o UpToDone(Tail(ls))

\* C5: the stream yields one item per chunk line, in order, up to and
\* including the first done:true line, and ends there or at the transport's
\* close: no item is ever yielded after a done:true item.
StreamEndsAtDone ==
    /\ IsSeqPrefix(out, ItemsOf(UpToDone(NonBlankLines(body))))
    /\ \A i \in 1..Len(out) : out[i].finish = "STOP" => i = Len(out)
    /\ (closed = "eof" => out = ItemsOf(UpToDone(NonBlankLines(body))))

\* C6: what the parser parses and yields does not depend on how the bytes are
\* split over reads: the texts handed to JSON.parse are, in order and once
\* each, the non-blank newline-terminated lines of the body, whole; the items
\* are those of the parsed lines; when the transport closes every line of
\* the body has been parsed.
StreamSplitIndependent ==
    /\ IsSeqPrefix(parsed, NonBlankLines(body))
    /\ out = ItemsOf(parsed)
    /\ (closed = "eof" => parsed = NonBlankLines(body))
    /\ (gen = "yielded" => cur = JsonParse(parsed[Len(parsed)]))

\* a line that arrived over more than one read has been parsed and yielded
SplitLineParsedWhole ==
    /\ body = <<"{", "b", "d", "}", NL>>
    /\ joined
    /\ parsed = << <<"{", "b", "d", "}">> >>
    /\ gen = "yielded" /\ out = << [text |-> "b", finish |-> "STOP"] >>

\* C7: a line that fails to parse produces no item and neither ends nor fails
\* the stream: the stream fails only through the transport, ends only at a
\* done:true item, at the transport's close or when the consumer returns, and
\* every chunk line parsed later is still yielded, in order.
StreamSurvivesBadLine ==
    /\ Len(out) = Len(SelectSeq(parsed, IsChunkLine))
    /\ \A i \in 1..Len(out) : out[i] = ItemOf(SelectSeq(parsed, IsChunkLine)[i])
    /\ (gen = "failed" => closed \in {"error", "nobody"})
    /\ (gen = "returned" =>
          \/ closed = "eof"
          \/ consumer = "return"
          \/ out # <<>> /\ out[Len(out)].finish = "STOP")
    /\ (closed = "eof" => out = ItemsOf(NonBlankLines(body)))

\* an unparseable line was passed over and a later line was yielded
ItemYieldedAfterBadLine ==
    /\ Len(parsed) >= 2
    /\ ~JsonParse(parsed[1]).ok
    /\ IsChunkLine(parsed[Len(parsed)])
    /\ gen = "yielded" /\ out # <<>>

\* C8: once the read handle is held, it is released on every way the stream
\* can end: a done:true chunk, the transport's close, a read error, and the
\* consumer abandoning the sequence with return() or throw() at a yield.
HandleReleasedOnEveryEnd ==
    /\ (gen \in {"returned", "failed"} => ~held)
    /\ (consumer \in {"return", "throw"} => ~held)

----------------------------------------------------------------------------
(* Properties of the model selection *)

IsCatalogModel(model) == \E i \in 1..Len(MODEL_CATALOG) : MODEL_CATALOG[i] = model

\* C16: recommendModel returns null or a catalog model whose name is in the
\* available set it was given, null only when no catalog model is in that
\* set; every Recommendation of recommend, whichever path produced it, selects
\* a catalog model that is a member of the available set the caller supplied.
SelectionWithinAvailableSet ==
    /\ rec.outcome = "model" =>
          IsCatalogModel(rec.model) /\ rec.model.name \in AvailableModels(ctx)
    /\ rec.outcome = "null" =>
          rec.model = NullModel /\ AvailableModels(ctx) \cap CatalogNames = {}
    /\ rec.outcome = "recommendation" =>
          /\ IsCatalogModel(rec.model)
          /\ rec.path \in {"manual", "fallback", "automatic"}
          /\ (ctx.available.given => rec.model.name \in ctx.available.names)

BestInstalledModelSelected ==
    /\ rec.outcome = "recommendation" /\ rec.path = "automatic"
    /\ ctx.available = [given |-> TRUE, names |-> {"tinyllama:latest", Unlisted}]
    /\ rec.taskType = "debugging"
    /\ rec.model.name = "tinyllama:latest"

\* C17: in manual mode with a preferred model that is in the available set,
\* catalog entry or not, recommend returns that model with confidence 1.0.
ManualPreferredIsReturned ==
    (rec.path # "recommendModel" /\ rec.outcome # "none" /\ ManualRequested(ctx)) =>
        /\ rec.outcome = "recommendation"
        /\ rec.model.name = ctx.prefs.preferred
        /\ rec.confidence = 100

\* C18: off the manual path recommend throws 'No available models found'
\* exactly when no catalog model is in the available set; whenever
\* recommendModel finds no candidate although a catalog model is available,
\* the result is the first catalog model that is available, at confidence 0.3
\* and without alternatives.
AutomaticFailsOnlyWithoutCatalogModel ==
    (rec.outcome \in {"recommendation", "threw"} /\ rec.path # "manual") =>
        /\ rec.outcome = "threw" <=> AvailableModels(ctx) \cap CatalogNames = {}
        /\ rec.outcome = "threw" => rec.error = "No available models found"
        /\ (recommendModel(rec.taskType, AvailableModels(ctx)) = NullModel
              /\ AvailableModels(ctx) \cap CatalogNames # {})
           => rec.path = "fallback"
        /\ (rec.outcome = "recommendation" /\ rec.path = "fallback") =>
              /\ rec.confidence = 30 /\ rec.alternatives = <<>>
              /\ rec.model.name \in AvailableModels(ctx)
              /\ \A i \in 1..Len(MODEL_CATALOG) :
                    MODEL_CATALOG[i].name \in AvailableModels(ctx)
                    => \E j \in 1..i : MODEL_CATALOG[j] = rec.model

OnlyUnlistedModelsAvailable ==
    /\ rec.outcome = "threw" /\ rec.error = "No available models found"
    /\ ctx.prefs.mode = "auto"
    /\ ctx.available = [given |-> TRUE, names |-> {Unlisted}]

\* C19: the confidence of every Recommendation lies between 0 and 1: the
\* manual path gives 1.0, the fallback 0.3, and the automatic path the sum of
\* its bonuses cut off at 1.0.
ConfidenceWithinUnitInterval ==
    rec.outcome = "recommendation" =>
        /\ rec.confidence >= 0 /\ rec.confidence <= 100
        /\ (rec.path = "automatic" =>
              rec.confidence = (IF rec.summed > 100 THEN 100 ELSE rec.summed))

ConfidenceClamped ==
    /\ rec.outcome = "recommendation" /\ rec.path = "automatic"
    /\ rec.summed = 110 /\ rec.confidence = 100
    /\ rec.taskType = "project_planning" /\ rec.model.name = "gpt-oss:latest"
    /\ ctx.prompt.length > 500 /\ ctx.project = "code"

\* the available catalog models other than the selected one
OtherCandidates ==
    {i \in 1..Len(MODEL_CATALOG) :
        /\ MODEL_CATALOG[i].name \in AvailableModels(ctx)
        /\ MODEL_CATALOG[i] # rec.model}

\* C20: the alternatives of a Recommendation are distinct catalog models of
\* the available set, none of them the selected model, at most 2, in order of
\* non-increasing task score, and no other available model that is not the
\* selected one scores higher than a listed one.
AlternativesAreTopOthers ==
    rec.outcome = "recommendation" =>
        LET alts == rec.alternatives
            score(m) == scoreModelForTask(m, rec.taskType)
        IN /\ Len(alts) <= 2
           /\ \A i \in 1..Len(alts) :
                 /\ alts[i] # rec.model
                 /\ \E k \in OtherCandidates : MODEL_CATALOG[k] = alts[i]
                 /\ \A j \in 1..Len(alts) : i < j => /\ score(alts[i]) >= score(alts[j])
                                                      /\ alts[i] # alts[j]
                 /\ \A k \in OtherCandidates :
                       (\A j \in 1..Len(alts) : alts[j] # MODEL_CATALOG[k])
                       => score(MODEL_CATALOG[k]) <= score(alts[i])
           /\ (rec.path # "fallback" /\ Len(alts) < 2
                 => Len(alts) = Cardinality(OtherCandidates))

TwoAlternativesOfFour ==
    /\ rec.outcome = "recommendation" /\ rec.path = "automatic"
    /\ Cardinality(OtherCandidates) = 3
    /\ Len(rec.alternatives) = 2
    /\ scoreModelForTask(rec.alternatives[1], rec.taskType)
          > scoreModelForTask(rec.alternatives[2], rec.taskType)
    /\ scoreModelForTask(rec.model, rec.taskType)
          > scoreModelForTask(rec.alternatives[1], rec.taskType)

RuleMatches(i, prompt) ==
    CASE i = 1 -> IncludesAny(prompt, {"debug", "error", "fix"})
      [] i = 2 -> IncludesAny(prompt, {"code", "function", "implement", "write"})
      [] i = 3 -> IncludesAny(prompt, {"review", "improve", "refactor"})
      [] i = 4 -> IncludesAny(prompt, {"document", "readme", "comment"})
      [] i = 5 -> IncludesAny(prompt, {"analyze", "examine", "explain"})
      [] i = 6 -> /\ prompt.length < 50
                  /\ \/ Includes(prompt, "?")
                     \/ \E w \in {"what", "how", "why"} : PromptStartsWith(prompt, w)
      [] i = 7 -> /\ IncludesAny(prompt, {"write", "create", "generate"})
                  /\ ~Includes(prompt, "code")
      [] i = 8 -> IncludesAny(prompt, {"plan", "architecture", "design"})
      [] i = 9 -> IncludesAny(prompt, {"calculate", "solve", "math"})
      [] OTHER -> TRUE

RuleCategory(i, project) ==
    CASE i = 1 -> "debugging"
      [] i = 2 -> "code_generation"
      [] i = 3 -> "code_review"
      [] i = 4 -> "documentation"
      [] i = 5 -> IF project = "code" THEN "file_analysis" ELSE "general_chat"
      [] i = 6 -> "quick_questions"
      [] i = 7 -> "creative_writing"
      [] i = 8 -> "project_planning"
      [] i = 9 -> "complex_reasoning"
      [] OTHER -> "general_chat"

FirstMatchingRule(prompt) ==
    CHOOSE i \in 1..10 : RuleMatches(i, prompt) /\ \A j \in 1..(i - 1) : ~RuleMatches(j, prompt)

\* C22: the task type is the category of the first rule, in the order
\* debugging, code generation, review, documentation, analysis, short
\* question, creative writing, planning, reasoning, general chat, that the
\* prompt matches, whatever later rules match as well.
ClassifiedByFirstMatchingRule ==
    rec.outcome = "taskType" =>
        rec.taskType = RuleCategory(FirstMatchingRule(ctx.prompt), ctx.project)

\* a prompt of 50 characters or more with a creative and a planning keyword
CreativeBeforePlanning ==
    /\ rec.outcome = "taskType"
    /\ ctx.prompt.words = {"create", "plan"}
    /\ ctx.prompt.length = 50
    /\ rec.taskType = "creative_writing"

\* C30: a prompt containing "write" or "code" is classified debugging or
\* code_generation and never creative_writing; a prompt is classified
\* creative_writing exactly when no earlier rule matches and it contains
\* "create" or "generate", so the exclusion of "code" decides nothing.
WriteAndCodeNeverCreative ==
    rec.outcome = "taskType" =>
        /\ (Includes(ctx.prompt, "write") \/ Includes(ctx.prompt, "code"))
              => rec.taskType \in {"debugging", "code_generation"}
        /\ rec.taskType = "creative_writing"
              <=> /\ \A j \in 1..6 : ~RuleMatches(j, ctx.prompt)
                  /\ (Includes(ctx.prompt, "create") \/ Includes(ctx.prompt, "generate"))

\* "generate" together with "code": caught by the code-generation rule
GenerateCodeIsCodeGeneration ==
    /\ rec.outcome = "taskType"
    /\ ctx.prompt.words = {"generate", "code"}
    /\ ctx.prompt.first = "please"
    /\ rec.taskType = "code_generation"

\* C23: recommendModel, called on its own or by the automatic path of
\* recommend, returns the catalog model of the available set with the highest
\* task score, and of several with that score the one that comes first in the
\* catalog; "fix this bug in my code" is classified debugging.
TopScoreFirstInCatalogWins ==
    LET candidates == {i \in 1..Len(MODEL_CATALOG) :
                          MODEL_CATALOG[i].name \in AvailableModels(ctx)}
        score(i) == scoreModelForTask(MODEL_CATALOG[i], rec.taskType)
    IN /\ (rec.outcome = "model" \/ (rec.outcome = "recommendation" /\ rec.path = "automatic"))
            => \E i \in candidates :
                  /\ MODEL_CATALOG[i] = rec.model
                  /\ \A j \in candidates :
                        /\ score(j) <= score(i)
                        /\ score(j) = score(i) => i <= j
       /\ (rec.outcome = "recommendation" /\ ctx.prompt = Prompt({"fix", "code"}, "fix", 23))
            => rec.taskType = "debugging"

\* for documentation GPT-OSS and Gemma both score 6: the earlier one is returned
TieGoesToEarlierCatalogEntry ==
    /\ rec.outcome = "model"
    /\ rec.taskType = "documentation"
    /\ AvailableModels(ctx) = {"gpt-oss:latest", "gemma3:4b", "tinyllama:latest"}
    /\ scoreModelForTask(MODEL_CATALOG[2], "documentation")
         = scoreModelForTask(MODEL_CATALOG[4], "documentation")
    /\ rec.model.name = "gpt-oss:latest"

\* C24: the score is 3 for every strength tag of the model that the task
\* prefers, plus 2 when the qualities are equal, plus 1 when the speeds are
\* equal; a descriptor of the same quality and speed with at least as many
\* matching tags scores at least as much.
ScoreIsWeightedMatchCount ==
    rec.outcome = "score" =>
        LET preferred == TASK_TO_MODEL_PREFERENCES[ctx.taskType]
            matching(tags) == Cardinality(tags \cap preferred.strengths)
            fixed == (IF ctx.model.quality = preferred.quality THEN 2 ELSE 0)
                     + (IF ctx.model.speed = preferred.speed THEN 1 ELSE 0)
        IN /\ rec.score = 3 * matching(ctx.model.strengths) + fixed
           /\ \A tags \in SUBSET StrengthTags :
                 matching(tags) >= matching(ctx.model.strengths)
                   => scoreModelForTask([ctx.model EXCEPT !.strengths = tags],
                                        ctx.taskType) >= rec.score

\* both preferred tags, the preferred quality and the preferred speed: 9
TwoMatchingTagsScoreNine ==
    /\ rec.outcome = "score"
    /\ ctx.taskType = "debugging"
    /\ ctx.model = Caps("candidate", "medium", "excellent", {"coding", "reasoning", "math"})
    /\ rec.score = 9

\* the three failures a validation tells apart, and the success
ValidationOutcomesDistinct ==
    /\ rec.error = "not running" <=> (ctx.backend.imported /\ ~ctx.backend.running)
    /\ rec.error = "Failed to validate"
         <=> (~ctx.backend.imported \/ (ctx.backend.running /\ ~ctx.backend.listed))
    /\ rec.error \in {"not running", "Failed to validate"}
         => (~rec.isValid /\ ~rec.hasList)
    /\ rec.error = "not found"
         => (~rec.isValid /\ rec.hasList /\ rec.availableModels = ctx.backend.installed)
    /\ rec.isValid <=> rec.error = ""

\* C25 as stated: a validation never raises, tells not running, not found and
\* failed apart, and is valid exactly when the listing has a name that equals
\* the requested name or starts with it, the equal name being returned first.
ValidExactlyWhenEqualOrPrefix ==
    rec.outcome # "none" =>
        LET installed == ctx.backend.installed
            equal(name) == name = ctx.modelName
            prefix(name) == StartsWith(name, ctx.modelName)
        IN /\ rec.outcome = "validation"
           /\ ValidationOutcomesDistinct
           /\ rec.isValid <=> (ctx.backend.listed
                                /\ \E i \in 1..Len(installed) : prefix(installed[i]))
           /\ rec.isValid =>
                 rec.actualModelName =
                     IF \E i \in 1..Len(installed) : equal(installed[i])
                     THEN ctx.modelName
                     ELSE installed[CHOOSE i \in 1..Len(installed) :
                                        /\ prefix(installed[i])
                                        /\ \A j \in 1..(i - 1) : ~prefix(installed[j])]

\* C25 amended: as above, but valid exactly when the listing has a name that
\* equals the requested name, starts with it or starts with its lower-cased
\* form; the requested name is returned when it is installed, otherwise the
\* first installed name with such a prefix.
ValidWhenEqualOrPrefixOfEitherCase ==
    rec.outcome # "none" =>
        LET installed == ctx.backend.installed
            equal(name) == name = ctx.modelName
            prefix(name) == \/ StartsWith(name, ctx.modelName)
                            \/ StartsWith(name, LowerText(ctx.modelName))
        IN /\ rec.outcome = "validation"
           /\ ValidationOutcomesDistinct
           /\ rec.isValid <=> (ctx.backend.listed
                                /\ \E i \in 1..Len(installed) : prefix(installed[i]))
           /\ rec.isValid =>
                 rec.actualModelName =
                     IF \E i \in 1..Len(installed) : equal(installed[i])
                     THEN ctx.modelName
                     ELSE installed[CHOOSE i \in 1..Len(installed) :
                                        /\ prefix(installed[i])
                                        /\ \A j \in 1..(i - 1) : ~prefix(installed[j])]

\* "llama3" requested, "llama3:latest" listed before "llama3": the exact name
ExactMatchPreferredToEarlierPrefix ==
    /\ rec.outcome = "validation"
    /\ ctx.modelName = <<"l">>
    /\ ctx.backend.installed = << <<"l", ":">>, <<"l">> >>
    /\ rec.isValid
    /\ rec.actualModelName = <<"l">>

\* C26: the model id in the chat request of generateContent and of
\* generateContentStream is the model id whose presence ensureModelAvailable
\* checked, and pulled when it was absent, for the same call.
ChatModelIsCheckedModel ==
    \A c \in DOMAIN call :
        LET r == call[c] IN
        (r.op \in Generating /\ r.chatSent > 0) =>
            /\ r.checked
            /\ r.chatModel = r.checkedModel
            /\ r.pullAsked => r.chatModel = r.pullName

\* C27: every Recommendation that recommend returns has a confidence of at
\* least 0.5 and comes from the manual or the automatic branch: recommendModel
\* returns null exactly when recommend throws, so the 0.3 fallback is never
\* returned.
ConfidenceAtLeastHalf ==
    /\ rec.outcome = "recommendation" =>
          /\ rec.confidence >= 50
          /\ ~DoubleGreater(DoubleBase, confidenceValue(rec, ctx))
          /\ rec.path \in {"manual", "automatic"}
    /\ (rec.outcome \in {"recommendation", "threw"} /\ rec.path # "manual") =>
          (recommendModel(rec.taskType, AvailableModels(ctx)) = NullModel
             <=> rec.outcome = "threw")

\* TinyLlama alone, for a review: nothing matches, the confidence is the base
NothingMatchesConfidenceHalf ==
    /\ rec.outcome = "recommendation" /\ rec.path = "automatic"
    /\ rec.taskType = "code_review"
    /\ rec.model.name = "tinyllama:latest"
    /\ scoreModelForTask(rec.model, rec.taskType) = 0
    /\ rec.confidence = 50

\* C28: only the lines of the body that end in a newline are parsed and
\* yielded, in order; when the transport closes, what the buffer holds after
\* the last newline stays there, the generator returns and no item is made
\* of it, a complete done:true chunk included.
UnterminatedTailDiscarded ==
    LET parts == Split(body)
        terminated == SelectSeq(SubSeq(parts, 1, Len(parts) - 1),
                                LAMBDA line : Trim(line) # <<>>)
        tail == parts[Len(parts)]
    IN /\ Len(parsed) <= Len(terminated)
       /\ parsed = SubSeq(terminated, 1, Len(parsed))
       /\ Len(out) <= Len(parsed)
       /\ closed = "eof" =>
             /\ buffer = tail
             /\ gen = "returned"
             /\ lines = <<>>

\* the body ends in a complete done:true chunk without a newline
DoneChunkWithoutNewlineDropped ==
    /\ body = <<"{", "a", "}", NL, "{", "b", "d", "}">>
    /\ closed = "eof"
    /\ buffer = <<"{", "b", "d", "}">>
    /\ JsonParse(buffer) = Chunk("b", TRUE)
    /\ out = << [text |-> "a", finish |-> "none"] >>
    /\ gen = "returned"

\* the service's score and the catalog's score of every catalog model agree
\* for every task type
ScoringFunctionsAgree ==
    \A t \in TaskTypes : \A i \in 1..Len(MODEL_CATALOG) :
        ServiceScoreModelForTask(MODEL_CATALOG[i], t) = scoreModelForTask(MODEL_CATALOG[i], t)

\* C29 as stated: the two scoring functions agree on every catalog model and
\* task type, and the selected model of a Recommendation never scores below
\* an alternative listed with it.
SelectedNeverBelowAlternatives ==
    rec.outcome \in {"model", "recommendation"} =>
        /\ ScoringFunctionsAgree
        /\ \A k \in 1..Len(rec.alternatives) :
              ServiceScoreModelForTask(rec.model, rec.taskType)
                 >= ServiceScoreModelForTask(rec.alternatives[k], rec.taskType)

\* C29 amended: the two scoring functions agree on every catalog model and
\* task type, and a model selected by its score (the automatic branch) never
\* scores below an alternative listed with it.
ScoredSelectionNeverBelowAlternatives ==
    rec.outcome \in {"model", "recommendation"} =>
        /\ ScoringFunctionsAgree
        /\ rec.path = "automatic" =>
              \A k \in 1..Len(rec.alternatives) :
                 /\ ServiceScoreModelForTask(rec.model, rec.taskType)
                       >= ServiceScoreModelForTask(rec.alternatives[k], rec.taskType)
                 /\ scoreModelForTask(rec.model, rec.taskType)
                       >= scoreModelForTask(rec.alternatives[k], rec.taskType)

\* the selected model and its best alternative score the same for documentation
AlternativeTiesWithSelected ==
    /\ rec.outcome = "recommendation" /\ rec.path = "automatic"
    /\ rec.taskType = "documentation"
    /\ rec.model.name = "gpt-oss:latest"
    /\ Len(rec.alternatives) = 2
    /\ rec.alternatives[1].name = "gemma3:4b"
    /\ ServiceScoreModelForTask(rec.model, rec.taskType)
         = ServiceScoreModelForTask(rec.alternatives[1], rec.taskType)

====
